---------------------------- MODULE Spec2Model ----------------------------
(***************************************************************************)
(* Intel 8080 CPU emulation on an Arduino Nano (arduino_8080.ino).         *)
(*                                                                         *)
(* The model follows the sketch: the global cpu_state, State and tstates,  *)
(* init_cpu, the dispatch loop of cpu_8080 with its register copies, the   *)
(* break-switch interrupt handler user_int, and loop() around them.        *)
(* Every arm of the opcode switch is translated statement by statement;    *)
(* C values are kept as 16-bit patterns (int and WORD are 16 bits wide on  *)
(* the AVR target) and truncated where the C code stores them into a BYTE  *)
(* or a WORD.                                                              *)
(***************************************************************************)
EXTENDS Integers, Sequences, FiniteSets, TLC

VARIABLES
    cpu_state,  \* struct cpu_state: A, B, C, D, E, H, L, F, IFF, PC8, SP8
    loc,        \* cpu_8080's own copies A .. SP8 and its accumulator t
    State,      \* CPUState State
    tstates,    \* unsigned long tstates
    mem,        \* the 64 KiB memory behind memrdr / memwrt
    io,         \* the calls made to io_in / io_out, in order
    pc,         \* where the sketch is: init_cpu, cpu_8080, fetch, check, done, exit
    cached,     \* whether this build keeps State in a register inside the loop
    sreg,       \* that register
    op,         \* history: the opcode of the last executed instruction (-1: none)
    pre,        \* history: the machine right before that instruction
    brk,        \* history: user_int has run
    at_entry,   \* history: State when cpu_8080 was entered ("none": not yet)
    n           \* history: instructions executed since the initial state

vars == << cpu_state, loc, State, tstates, mem, io, pc, cached, sreg, op, pre, brk,
          at_entry, n >>

-----------------------------------------------------------------------------
(* Flag bits and CPUState come from simcore.h; the layout is the 8080's.   *)
C_FLAG == 1
N_FLAG == 2
P_FLAG == 4
X_FLAG == 8
H_FLAG == 16
Y_FLAG == 32
Z_FLAG == 64
S_FLAG == 128
C_SHIFT == 0
H_SHIFT == 4

Running == "Running"
Halted == "Halted"
Interrupted == "Interrupted"

-----------------------------------------------------------------------------
(* C arithmetic on 16-bit patterns.                                        *)

\* typedef unsigned char BYTE: a store into a BYTE keeps the low 8 bits
BYTE(x) == x % 256

\* typedef unsigned int WORD: a store into a WORD keeps the low 16 bits
WORD(x) == x % 65536

\* unsigned long: 32 bits, held as two 16-bit halves (value = hi * 65536 + lo)
ULONG(hi, lo) == [hi |-> hi % 65536, lo |-> lo % 65536]

RECURSIVE AND(_, _)
\* a & b
AND(a, b) ==
    IF a = 0 \/ b = 0 THEN 0
    ELSE (a % 2) * (b % 2) + 2 * AND(a \div 2, b \div 2)

\* a | b
OR(a, b) == a + b - AND(a, b)

\* a ^ b
XOR(a, b) == a + b - 2 * AND(a, b)

\* ~a
NOT(a) == 65535 - a

\* a + b
ADD(a, b) == (a + b) % 65536

\* a - b
SUB(a, b) == (a - b) % 65536

\* a << k
SHL(a, k) == (a * 2^k) % 65536

\* a >> k (only ever applied to non-negative values)
SHR(a, k) == a \div 2^k

\* a > b
\* a faulty >: it also holds of equal operands
GT_ge(a, b) == IF a >= b THEN 1 ELSE 0

GT(a, b) == IF a > b THEN 1 ELSE 0

\* a || b
LOR(a, b) == IF a # 0 \/ b # 0 THEN 1 ELSE 0

\* !a
LNOT(a) == IF a = 0 THEN 1 ELSE 0

-----------------------------------------------------------------------------
(* Memory (memsim.h): every address readable and writable.  mem.k holds    *)
(* the bytes that were loaded or written, mem.d is the byte found at every *)
(* other address.                                                          *)

memrdr(m, addr) == IF addr \in DOMAIN m.k THEN m.k[addr] ELSE m.d

memwrt(m, addr, data) ==
    [m EXCEPT !.k = [a \in (DOMAIN m.k) \cup {addr} |->
                        IF a = addr THEN data ELSE m.k[a]]]

-----------------------------------------------------------------------------
\* szp_flags[256], transcribed entry by entry (S = S_FLAG, Z = Z_FLAG, P = P_FLAG)
szp_table ==
    << 68,   0,   0,   4,   0,   4,   4,   0,   0,   4,   4,   0,   4,   0,   0,   4,
       0,   4,   4,   0,   4,   0,   0,   4,   4,   0,   0,   4,   0,   4,   4,   0,
       0,   4,   4,   0,   4,   0,   0,   4,   4,   0,   0,   4,   0,   4,   4,   0,
       4,   0,   0,   4,   0,   4,   4,   0,   0,   4,   4,   0,   4,   0,   0,   4,
       0,   4,   4,   0,   4,   0,   0,   4,   4,   0,   0,   4,   0,   4,   4,   0,
       4,   0,   0,   4,   0,   4,   4,   0,   0,   4,   4,   0,   4,   0,   0,   4,
       4,   0,   0,   4,   0,   4,   4,   0,   0,   4,   4,   0,   4,   0,   0,   4,
       0,   4,   4,   0,   4,   0,   0,   4,   4,   0,   0,   4,   0,   4,   4,   0,
       128, 132, 132, 128, 132, 128, 128, 132, 132, 128, 128, 132, 128, 132, 132, 128,
       132, 128, 128, 132, 128, 132, 132, 128, 128, 132, 132, 128, 132, 128, 128, 132,
       132, 128, 128, 132, 128, 132, 132, 128, 128, 132, 132, 128, 132, 128, 128, 132,
       128, 132, 132, 128, 132, 128, 128, 132, 132, 128, 128, 132, 128, 132, 132, 128,
       132, 128, 128, 132, 128, 132, 132, 128, 128, 132, 132, 128, 132, 128, 128, 132,
       128, 132, 132, 128, 132, 128, 128, 132, 132, 128, 128, 132, 128, 132, 132, 128,
       128, 132, 132, 128, 132, 128, 128, 132, 132, 128, 128, 132, 128, 132, 132, 128,
       132, 128, 128, 132, 128, 132, 132, 128, 128, 132, 132, 128, 132, 128, 128, 132 >>

\* a faulty szp_flags: the table is read one entry too far
szp_flags_next == [v \in 0..255 |-> szp_table[((v + 1) % 256) + 1]]

szp_flags == [v \in 0..255 |-> szp_table[v + 1]]
\* a faulty finish_inr: the carry flag is cleared
finish_inr_carry(s, P, res) ==
    LET cout_1 == BYTE(OR(AND(P, 1), AND(OR(P, 1), NOT(res))))
        F_1 == BYTE(OR(SHL(AND(SHR(cout_1, 3), 1), H_SHIFT), szp_flags[res]))
    IN  [s EXCEPT !.F = F_1, !.t = BYTE(ADD(s.t, 1))]

\* finish_inr: (lines 197-203)
finish_inr(s, P, res) ==
    LET cout_1 == BYTE(OR(AND(P, 1), AND(OR(P, 1), NOT(res))))
        F_1 == BYTE(OR(OR(AND(s.F, C_FLAG), SHL(AND(SHR(cout_1, 3), 1), H_SHIFT)), szp_flags[res]))
        t_1 == BYTE(ADD(s.t, 1))
    IN  [s EXCEPT !.F = F_1, !.t = t_1]

\* finish_dcr: (lines 208-215)
finish_dcr(s, P, res) ==
    LET cout_1 == BYTE(OR(AND(NOT(P), 1), AND(OR(NOT(P), 1), res)))
        F_1 == BYTE(OR(OR(AND(s.F, C_FLAG), SHL(AND(SHR(cout_1, 3), 1), H_SHIFT)), szp_flags[res]))
        F_2 == BYTE(XOR(F_1, H_FLAG))
        t_1 == BYTE(ADD(s.t, 1))
    IN  [s EXCEPT !.F = F_2, !.t = t_1]

\* a faulty finish_dad: H is cleared along with C
finish_dad_h(s, addr, cout) ==
    LET F_1 == BYTE(OR(AND(s.F, NOT(C_FLAG + H_FLAG)), SHL(AND(SHR(cout, 7), 1), C_SHIFT)))
    IN  [s EXCEPT !.H = BYTE(SHR(addr, 8)), !.L = BYTE(AND(addr, 255)), !.F = F_1,
                  !.t = BYTE(ADD(s.t, 6))]

\* finish_dad: (lines 232-237)
finish_dad(s, addr, cout) ==
    LET F_1 == BYTE(OR(AND(s.F, NOT(C_FLAG)), SHL(AND(SHR(cout, 7), 1), C_SHIFT)))
        H_1 == BYTE(SHR(addr, 8))
        L_1 == BYTE(AND(addr, 255))
        t_1 == BYTE(ADD(s.t, 6))
    IN  [s EXCEPT !.H = H_1, !.L = L_1, !.F = F_1, !.t = t_1]

\* a faulty finish_add: the parity flag is left out
finish_add_noparity(s, P) ==
    LET res_1 == BYTE(ADD(s.A, P))
        cout_1 == BYTE(OR(AND(s.A, P), AND(OR(s.A, P), NOT(res_1))))
        F_1 == BYTE(OR(OR(SHL(AND(SHR(cout_1, 7), 1), C_SHIFT), SHL(AND(SHR(cout_1, 3), 1), H_SHIFT)), AND(szp_flags[res_1], OR(S_FLAG, Z_FLAG))))
    IN  [s EXCEPT !.A = res_1, !.F = F_1]

\* finish_add: (lines 813-820)
finish_add(s, P) ==
    LET res_1 == BYTE(ADD(s.A, P))
        cout_1 == BYTE(OR(AND(s.A, P), AND(OR(s.A, P), NOT(res_1))))
        F_1 == BYTE(OR(OR(SHL(AND(SHR(cout_1, 7), 1), C_SHIFT), SHL(AND(SHR(cout_1, 3), 1), H_SHIFT)), szp_flags[res_1]))
        A_1 == BYTE(res_1)
    IN  [s EXCEPT !.A = A_1, !.F = F_1]

\* a faulty finish_adc: the carry flag is not added
finish_adc_nocarry(s, P) == finish_add(s, P)

\* finish_adc: (lines 853-860)
finish_adc(s, P) ==
    LET res_1 == BYTE(ADD(ADD(s.A, P), AND(SHR(s.F, C_SHIFT), 1)))
        cout_1 == BYTE(OR(AND(s.A, P), AND(OR(s.A, P), NOT(res_1))))
        F_1 == BYTE(OR(OR(SHL(AND(SHR(cout_1, 7), 1), C_SHIFT), SHL(AND(SHR(cout_1, 3), 1), H_SHIFT)), szp_flags[res_1]))
        A_1 == BYTE(res_1)
    IN  [s EXCEPT !.A = A_1, !.F = F_1]

\* a faulty finish_sub: H is left as the borrow, not its complement
finish_sub_borrow(s, P) ==
    LET res_1 == BYTE(SUB(s.A, P))
        cout_1 == BYTE(OR(AND(NOT(s.A), P), AND(OR(NOT(s.A), P), res_1)))
        F_1 == BYTE(OR(OR(SHL(AND(SHR(cout_1, 7), 1), C_SHIFT), SHL(AND(SHR(cout_1, 3), 1), H_SHIFT)), szp_flags[res_1]))
    IN  [s EXCEPT !.A = res_1, !.F = F_1]

\* finish_sub: (lines 893-901)
finish_sub(s, P) ==
    LET res_1 == BYTE(SUB(s.A, P))
        cout_1 == BYTE(OR(AND(NOT(s.A), P), AND(OR(NOT(s.A), P), res_1)))
        F_1 == BYTE(OR(OR(SHL(AND(SHR(cout_1, 7), 1), C_SHIFT), SHL(AND(SHR(cout_1, 3), 1), H_SHIFT)), szp_flags[res_1]))
        F_2 == BYTE(XOR(F_1, H_FLAG))
        A_1 == BYTE(res_1)
    IN  [s EXCEPT !.A = A_1, !.F = F_2]

\* finish_sbb: (lines 936-944)
finish_sbb(s, P) ==
    LET res_1 == BYTE(SUB(SUB(s.A, P), AND(SHR(s.F, C_SHIFT), 1)))
        cout_1 == BYTE(OR(AND(NOT(s.A), P), AND(OR(NOT(s.A), P), res_1)))
        F_1 == BYTE(OR(OR(SHL(AND(SHR(cout_1, 7), 1), C_SHIFT), SHL(AND(SHR(cout_1, 3), 1), H_SHIFT)), szp_flags[res_1]))
        F_2 == BYTE(XOR(F_1, H_FLAG))
        A_1 == BYTE(res_1)
    IN  [s EXCEPT !.A = A_1, !.F = F_2]

\* a faulty finish_ana: H is always set, as the Z80 does
finish_ana_z80(s, P) ==
    LET res_1 == BYTE(AND(s.A, P))
    IN  [s EXCEPT !.A = res_1, !.F = BYTE(OR(H_FLAG, szp_flags[res_1]))]

\* finish_ana: (lines 977-983)
finish_ana(s, P) ==
    LET res_1 == BYTE(AND(s.A, P))
        F_1 == BYTE(OR(SHL(AND(SHR(OR(s.A, P), 3), 1), H_SHIFT), szp_flags[res_1]))
        A_1 == BYTE(res_1)
    IN  [s EXCEPT !.A = A_1, !.F = F_1]

\* a faulty finish_cmp: the difference is stored into A
finish_cmp_stores(s, P) == finish_sub(s, P)

\* finish_cmp: (lines 1113-1120)
finish_cmp(s, P) ==
    LET res_1 == BYTE(SUB(s.A, P))
        cout_1 == BYTE(OR(AND(NOT(s.A), P), AND(OR(NOT(s.A), P), res_1)))
        F_1 == BYTE(OR(OR(SHL(AND(SHR(cout_1, 7), 1), C_SHIFT), SHL(AND(SHR(cout_1, 3), 1), H_SHIFT)), szp_flags[res_1]))
        F_2 == BYTE(XOR(F_1, H_FLAG))
    IN  [s EXCEPT !.F = F_2]

\* finish_ret: (lines 1216-1221)
finish_ret(s) ==
    LET SP8_1 == WORD(ADD(s.SP8, 1))
        addr_1 == WORD(memrdr(s.mem, WORD(s.SP8)))
        SP8_2 == WORD(ADD(SP8_1, 1))
        addr_2 == WORD(OR(addr_1, SHL(memrdr(s.mem, WORD(SP8_1)), 8)))
        t_1 == BYTE(ADD(s.t, 6))
        PC8_1 == WORD(addr_2)
    IN  [s EXCEPT !.PC8 = PC8_1, !.SP8 = SP8_2, !.t = t_1]

\* a faulty finish_call: the return address is pushed low byte first
finish_call_swapped(s, addr) ==
    LET SP8_1 == WORD(SUB(s.SP8, 1))
        mem_1 == memwrt(s.mem, WORD(SP8_1), BYTE(s.PC8))
        SP8_2 == WORD(SUB(SP8_1, 1))
        mem_2 == memwrt(mem_1, WORD(SP8_2), BYTE(SHR(s.PC8, 8)))
    IN  [s EXCEPT !.mem = mem_2, !.SP8 = SP8_2, !.PC8 = WORD(addr),
                  !.t = BYTE(ADD(s.t, 6))]

\* finish_call: (lines 1238-1243)
finish_call(s, addr) ==
    LET SP8_1 == WORD(SUB(s.SP8, 1))
        mem_1 == memwrt(s.mem, WORD(SP8_1), BYTE(SHR(s.PC8, 8)))
        SP8_2 == WORD(SUB(SP8_1, 1))
        mem_2 == memwrt(mem_1, WORD(SP8_2), BYTE(s.PC8))
        t_1 == BYTE(ADD(s.t, 6))
        PC8_1 == WORD(addr)
    IN  [s EXCEPT !.PC8 = PC8_1, !.SP8 = SP8_2, !.t = t_1, !.mem = mem_2]

\* a faulty finish_retc: the extra T-state of the test is not counted
finish_retc_untimed(s, res) == IF res # 0 THEN finish_ret(s) ELSE s

\* finish_retc: (lines 1154-1158)
finish_retc(s, res) ==
    LET t_1 == BYTE(ADD(s.t, 1))
    IN  IF res # 0 THEN finish_ret([s EXCEPT !.t = t_1]) ELSE [s EXCEPT !.t = t_1]

\* a faulty finish_jmpc: an untaken jump does not step over its operand
finish_jmpc_skip(s, res) ==
    LET addr_1 == WORD(OR(memrdr(s.mem, WORD(s.PC8)),
                          SHL(memrdr(s.mem, WORD(ADD(s.PC8, 1))), 8)))
    IN  [s EXCEPT !.PC8 = IF res # 0 THEN addr_1 ELSE s.PC8, !.t = BYTE(ADD(s.t, 6))]

\* finish_jmpc: (lines 1168-1174)
finish_jmpc(s, res) ==
    LET PC8_1 == WORD(ADD(s.PC8, 1))
        addr_1 == WORD(memrdr(s.mem, WORD(s.PC8)))
        PC8_2 == WORD(ADD(PC8_1, 1))
        addr_2 == WORD(OR(addr_1, SHL(memrdr(s.mem, WORD(PC8_1)), 8)))
        t_1 == BYTE(ADD(s.t, 6))
        PC8_3 == IF res # 0 THEN WORD(addr_2) ELSE PC8_2
    IN  [s EXCEPT !.PC8 = PC8_3, !.t = t_1]

\* finish_callc: (lines 1186-1192)
finish_callc(s, res) ==
    LET PC8_1 == WORD(ADD(s.PC8, 1))
        addr_1 == WORD(memrdr(s.mem, WORD(s.PC8)))
        PC8_2 == WORD(ADD(PC8_1, 1))
        addr_2 == WORD(OR(addr_1, SHL(memrdr(s.mem, WORD(PC8_1)), 8)))
        t_1 == BYTE(ADD(s.t, 7))
    IN  IF res # 0 THEN finish_call([s EXCEPT !.PC8 = PC8_2, !.t = t_1], addr_2) ELSE [s EXCEPT !.PC8 = PC8_2, !.t = t_1]
\* switch (memrdr(PC8++)): the arms of opcodes 0x00..0x3f
cpu_8080_00_3f(opc, s, inp) ==
        \* 00 NOP, 08 NOP*, 10 NOP*, 18 NOP*, 20 NOP*, 28 NOP*, 30 NOP*, 38 NOP* (lines 156-164)
    CASE opc \in {0, 8, 16, 24, 32, 40, 48, 56} ->
            s
        \* 01 LXI B,nn (lines 176-180)
      [] opc = 1 ->
            LET PC8_1 == WORD(ADD(s.PC8, 1))
                C_1 == BYTE(memrdr(s.mem, WORD(s.PC8)))
                PC8_2 == WORD(ADD(PC8_1, 1))
                B_1 == BYTE(memrdr(s.mem, WORD(PC8_1)))
                t_1 == BYTE(ADD(s.t, 6))
            IN  [s EXCEPT !.B = B_1, !.C = C_1, !.PC8 = PC8_2, !.t = t_1]
        \* 02 STAX B (lines 182-185)
      [] opc = 2 ->
            LET mem_1 == memwrt(s.mem, WORD(OR(SHL(s.B, 8), s.C)), BYTE(s.A))
                t_1 == BYTE(ADD(s.t, 3))
            IN  [s EXCEPT !.t = t_1, !.mem = mem_1]
        \* 03 INX B (lines 187-192)
      [] opc = 3 ->
            LET addr_1 == WORD(ADD(OR(SHL(s.B, 8), s.C), 1))
                B_1 == BYTE(SHR(addr_1, 8))
                C_1 == BYTE(AND(addr_1, 255))
                t_1 == BYTE(ADD(s.t, 1))
            IN  [s EXCEPT !.B = B_1, !.C = C_1, !.t = t_1]
        \* 04 INR B (lines 194-203)
      [] opc = 4 ->
            LET P_1 == BYTE(s.B)
                B_1 == BYTE(ADD(s.B, 1))
                res_1 == BYTE(B_1)
            IN  finish_inr([s EXCEPT !.B = B_1], P_1, res_1)
        \* 05 DCR B (lines 205-215)
      [] opc = 5 ->
            LET P_1 == BYTE(s.B)
                B_1 == BYTE(SUB(s.B, 1))
                res_1 == BYTE(B_1)
            IN  finish_dcr([s EXCEPT !.B = B_1], P_1, res_1)
        \* 06 MVI B,n (lines 217-220)
      [] opc = 6 ->
            LET PC8_1 == WORD(ADD(s.PC8, 1))
                B_1 == BYTE(memrdr(s.mem, WORD(s.PC8)))
                t_1 == BYTE(ADD(s.t, 3))
            IN  [s EXCEPT !.B = B_1, !.PC8 = PC8_1, !.t = t_1]
        \* 07 RLC (lines 222-226)
      [] opc = 7 ->
            LET res_1 == BYTE(AND(SHR(AND(s.A, 128), 7), 1))
                F_1 == BYTE(OR(AND(s.F, NOT(C_FLAG)), SHL(res_1, C_SHIFT)))
                A_1 == BYTE(OR(SHL(s.A, 1), res_1))
            IN  [s EXCEPT !.A = A_1, !.F = F_1]
        \* 09 DAD B (lines 228-237)
      [] opc = 9 ->
            LET addr_1 == WORD(OR(SHL(s.H, 8), s.L))
                addr_2 == WORD(ADD(addr_1, OR(SHL(s.B, 8), s.C)))
                cout_1 == BYTE(OR(AND(s.H, s.B), AND(OR(s.H, s.B), NOT(SHR(addr_2, 8)))))
            IN  finish_dad(s, addr_2, cout_1)
        \* 0a LDAX B (lines 239-242)
      [] opc = 10 ->
            LET A_1 == BYTE(memrdr(s.mem, WORD(OR(SHL(s.B, 8), s.C))))
                t_1 == BYTE(ADD(s.t, 3))
            IN  [s EXCEPT !.A = A_1, !.t = t_1]
        \* 0b DCX B (lines 244-249)
      [] opc = 11 ->
            LET addr_1 == WORD(SUB(OR(SHL(s.B, 8), s.C), 1))
                B_1 == BYTE(SHR(addr_1, 8))
                C_1 == BYTE(AND(addr_1, 255))
                t_1 == BYTE(ADD(s.t, 1))
            IN  [s EXCEPT !.B = B_1, !.C = C_1, !.t = t_1]
        \* 0c INR C (lines 251-254)
      [] opc = 12 ->
            LET P_1 == BYTE(s.C)
                C_1 == BYTE(ADD(s.C, 1))
                res_1 == BYTE(C_1)
            IN  finish_inr([s EXCEPT !.C = C_1], P_1, res_1)
        \* 0d DCR C (lines 256-259)
      [] opc = 13 ->
            LET P_1 == BYTE(s.C)
                C_1 == BYTE(SUB(s.C, 1))
                res_1 == BYTE(C_1)
            IN  finish_dcr([s EXCEPT !.C = C_1], P_1, res_1)
        \* 0e MVI C,n (lines 261-264)
      [] opc = 14 ->
            LET PC8_1 == WORD(ADD(s.PC8, 1))
                C_1 == BYTE(memrdr(s.mem, WORD(s.PC8)))
                t_1 == BYTE(ADD(s.t, 3))
            IN  [s EXCEPT !.C = C_1, !.PC8 = PC8_1, !.t = t_1]
        \* 0f RRC (lines 266-270)
      [] opc = 15 ->
            LET res_1 == BYTE(AND(s.A, 1))
                F_1 == BYTE(OR(AND(s.F, NOT(C_FLAG)), SHL(res_1, C_SHIFT)))
                A_1 == BYTE(OR(SHR(s.A, 1), SHL(res_1, 7)))
            IN  [s EXCEPT !.A = A_1, !.F = F_1]
        \* 11 LXI D,nn (lines 272-276)
      [] opc = 17 ->
            LET PC8_1 == WORD(ADD(s.PC8, 1))
                E_1 == BYTE(memrdr(s.mem, WORD(s.PC8)))
                PC8_2 == WORD(ADD(PC8_1, 1))
                D_1 == BYTE(memrdr(s.mem, WORD(PC8_1)))
                t_1 == BYTE(ADD(s.t, 6))
            IN  [s EXCEPT !.D = D_1, !.E = E_1, !.PC8 = PC8_2, !.t = t_1]
        \* 12 STAX D (lines 278-281)
      [] opc = 18 ->
            LET mem_1 == memwrt(s.mem, WORD(OR(SHL(s.D, 8), s.E)), BYTE(s.A))
                t_1 == BYTE(ADD(s.t, 3))
            IN  [s EXCEPT !.t = t_1, !.mem = mem_1]
        \* 13 INX D (lines 283-288)
      [] opc = 19 ->
            LET addr_1 == WORD(ADD(OR(SHL(s.D, 8), s.E), 1))
                D_1 == BYTE(SHR(addr_1, 8))
                E_1 == BYTE(AND(addr_1, 255))
                t_1 == BYTE(ADD(s.t, 1))
            IN  [s EXCEPT !.D = D_1, !.E = E_1, !.t = t_1]
        \* 14 INR D (lines 290-293)
      [] opc = 20 ->
            LET P_1 == BYTE(s.D)
                D_1 == BYTE(ADD(s.D, 1))
                res_1 == BYTE(D_1)
            IN  finish_inr([s EXCEPT !.D = D_1], P_1, res_1)
        \* 15 DCR D (lines 295-298)
      [] opc = 21 ->
            LET P_1 == BYTE(s.D)
                D_1 == BYTE(SUB(s.D, 1))
                res_1 == BYTE(D_1)
            IN  finish_dcr([s EXCEPT !.D = D_1], P_1, res_1)
        \* 16 MVI D,n (lines 300-303)
      [] opc = 22 ->
            LET PC8_1 == WORD(ADD(s.PC8, 1))
                D_1 == BYTE(memrdr(s.mem, WORD(s.PC8)))
                t_1 == BYTE(ADD(s.t, 3))
            IN  [s EXCEPT !.D = D_1, !.PC8 = PC8_1, !.t = t_1]
        \* 17 RAL (lines 305-309)
      [] opc = 23 ->
            LET res_1 == BYTE(AND(SHR(s.F, C_SHIFT), 1))
                F_1 == BYTE(OR(AND(s.F, NOT(C_FLAG)), SHL(AND(SHR(AND(s.A, 128), 7), 1), C_SHIFT)))
                A_1 == BYTE(OR(SHL(s.A, 1), res_1))
            IN  [s EXCEPT !.A = A_1, !.F = F_1]
        \* 19 DAD D (lines 311-315)
      [] opc = 25 ->
            LET addr_1 == WORD(OR(SHL(s.H, 8), s.L))
                addr_2 == WORD(ADD(addr_1, OR(SHL(s.D, 8), s.E)))
                cout_1 == BYTE(OR(AND(s.H, s.D), AND(OR(s.H, s.D), NOT(SHR(addr_2, 8)))))
            IN  finish_dad(s, addr_2, cout_1)
        \* 1a LDAX D (lines 317-320)
      [] opc = 26 ->
            LET A_1 == BYTE(memrdr(s.mem, WORD(OR(SHL(s.D, 8), s.E))))
                t_1 == BYTE(ADD(s.t, 3))
            IN  [s EXCEPT !.A = A_1, !.t = t_1]
        \* 1b DCX D (lines 322-327)
      [] opc = 27 ->
            LET addr_1 == WORD(SUB(OR(SHL(s.D, 8), s.E), 1))
                D_1 == BYTE(SHR(addr_1, 8))
                E_1 == BYTE(AND(addr_1, 255))
                t_1 == BYTE(ADD(s.t, 1))
            IN  [s EXCEPT !.D = D_1, !.E = E_1, !.t = t_1]
        \* 1c INR E (lines 329-332)
      [] opc = 28 ->
            LET P_1 == BYTE(s.E)
                E_1 == BYTE(ADD(s.E, 1))
                res_1 == BYTE(E_1)
            IN  finish_inr([s EXCEPT !.E = E_1], P_1, res_1)
        \* 1d DCR E (lines 334-337)
      [] opc = 29 ->
            LET P_1 == BYTE(s.E)
                E_1 == BYTE(SUB(s.E, 1))
                res_1 == BYTE(E_1)
            IN  finish_dcr([s EXCEPT !.E = E_1], P_1, res_1)
        \* 1e MVI E,n (lines 339-342)
      [] opc = 30 ->
            LET PC8_1 == WORD(ADD(s.PC8, 1))
                E_1 == BYTE(memrdr(s.mem, WORD(s.PC8)))
                t_1 == BYTE(ADD(s.t, 3))
            IN  [s EXCEPT !.E = E_1, !.PC8 = PC8_1, !.t = t_1]
        \* 1f RAR (lines 344-348)
      [] opc = 31 ->
            LET res_1 == BYTE(AND(SHR(s.F, C_SHIFT), 1))
                F_1 == BYTE(OR(AND(s.F, NOT(C_FLAG)), SHL(AND(s.A, 1), C_SHIFT)))
                A_1 == BYTE(OR(SHR(s.A, 1), SHL(res_1, 7)))
            IN  [s EXCEPT !.A = A_1, !.F = F_1]
        \* 21 LXI H,nn (lines 350-354)
      [] opc = 33 ->
            LET PC8_1 == WORD(ADD(s.PC8, 1))
                L_1 == BYTE(memrdr(s.mem, WORD(s.PC8)))
                PC8_2 == WORD(ADD(PC8_1, 1))
                H_1 == BYTE(memrdr(s.mem, WORD(PC8_1)))
                t_1 == BYTE(ADD(s.t, 6))
            IN  [s EXCEPT !.H = H_1, !.L = L_1, !.PC8 = PC8_2, !.t = t_1]
        \* 22 SHLD nn (lines 356-362)
      [] opc = 34 ->
            LET PC8_1 == WORD(ADD(s.PC8, 1))
                addr_1 == WORD(memrdr(s.mem, WORD(s.PC8)))
                PC8_2 == WORD(ADD(PC8_1, 1))
                addr_2 == WORD(OR(addr_1, SHL(memrdr(s.mem, WORD(PC8_1)), 8)))
                mem_1 == memwrt(s.mem, WORD(addr_2), BYTE(s.L))
                mem_2 == memwrt(mem_1, WORD(ADD(addr_2, 1)), BYTE(s.H))
                t_1 == BYTE(ADD(s.t, 12))
            IN  [s EXCEPT !.PC8 = PC8_2, !.t = t_1, !.mem = mem_2]
        \* 23 INX H (lines 364-369)
      [] opc = 35 ->
            LET addr_1 == WORD(ADD(OR(SHL(s.H, 8), s.L), 1))
                H_1 == BYTE(SHR(addr_1, 8))
                L_1 == BYTE(AND(addr_1, 255))
                t_1 == BYTE(ADD(s.t, 1))
            IN  [s EXCEPT !.H = H_1, !.L = L_1, !.t = t_1]
        \* 24 INR H (lines 371-374)
      [] opc = 36 ->
            LET P_1 == BYTE(s.H)
                H_1 == BYTE(ADD(s.H, 1))
                res_1 == BYTE(H_1)
            IN  finish_inr([s EXCEPT !.H = H_1], P_1, res_1)
        \* 25 DCR H (lines 376-379)
      [] opc = 37 ->
            LET P_1 == BYTE(s.H)
                H_1 == BYTE(SUB(s.H, 1))
                res_1 == BYTE(H_1)
            IN  finish_dcr([s EXCEPT !.H = H_1], P_1, res_1)
        \* 26 MVI H,n (lines 381-384)
      [] opc = 38 ->
            LET PC8_1 == WORD(ADD(s.PC8, 1))
                H_1 == BYTE(memrdr(s.mem, WORD(s.PC8)))
                t_1 == BYTE(ADD(s.t, 3))
            IN  [s EXCEPT !.H = H_1, !.PC8 = PC8_1, !.t = t_1]
        \* 27 DAA (lines 393-405)
      [] opc = 39 ->
            LET P_1 == BYTE(0)
                P_2 == IF LOR(GT(AND(s.A, 15), 9), AND(s.F, H_FLAG)) # 0 THEN BYTE(OR(P_1, 6)) ELSE P_1
                P_3 == IF LOR(GT(s.A, 153), AND(s.F, C_FLAG)) # 0 THEN BYTE(OR(P_2, 96)) ELSE P_2
                res_1 == BYTE(ADD(s.A, P_3))
                cout_1 == BYTE(OR(AND(s.A, P_3), AND(OR(s.A, P_3), NOT(res_1))))
                F_1 == BYTE(OR(OR(OR(SHL(GT(s.A, 153), C_SHIFT), AND(s.F, C_FLAG)), SHL(AND(SHR(cout_1, 3), 1), H_SHIFT)), szp_flags[res_1]))
                A_1 == BYTE(res_1)
            IN  [s EXCEPT !.A = A_1, !.F = F_1]
        \* 29 DAD H (lines 407-410)
      [] opc = 41 ->
            LET addr_1 == WORD(SHL(OR(SHL(s.H, 8), s.L), 1))
                cout_1 == BYTE(OR(s.H, AND(s.H, NOT(SHR(addr_1, 8)))))
            IN  finish_dad(s, addr_1, cout_1)
        \* 2a LHLD nn (lines 412-418)
      [] opc = 42 ->
            LET PC8_1 == WORD(ADD(s.PC8, 1))
                addr_1 == WORD(memrdr(s.mem, WORD(s.PC8)))
                PC8_2 == WORD(ADD(PC8_1, 1))
                addr_2 == WORD(OR(addr_1, SHL(memrdr(s.mem, WORD(PC8_1)), 8)))
                L_1 == BYTE(memrdr(s.mem, WORD(addr_2)))
                H_1 == BYTE(memrdr(s.mem, WORD(ADD(addr_2, 1))))
                t_1 == BYTE(ADD(s.t, 12))
            IN  [s EXCEPT !.H = H_1, !.L = L_1, !.PC8 = PC8_2, !.t = t_1]
        \* 2b DCX H (lines 420-425)
      [] opc = 43 ->
            LET addr_1 == WORD(SUB(OR(SHL(s.H, 8), s.L), 1))
                H_1 == BYTE(SHR(addr_1, 8))
                L_1 == BYTE(AND(addr_1, 255))
                t_1 == BYTE(ADD(s.t, 1))
            IN  [s EXCEPT !.H = H_1, !.L = L_1, !.t = t_1]
        \* 2c INR L (lines 427-430)
      [] opc = 44 ->
            LET P_1 == BYTE(s.L)
                L_1 == BYTE(ADD(s.L, 1))
                res_1 == BYTE(L_1)
            IN  finish_inr([s EXCEPT !.L = L_1], P_1, res_1)
        \* 2d DCR L (lines 432-435)
      [] opc = 45 ->
            LET P_1 == BYTE(s.L)
                L_1 == BYTE(SUB(s.L, 1))
                res_1 == BYTE(L_1)
            IN  finish_dcr([s EXCEPT !.L = L_1], P_1, res_1)
        \* 2e MVI L,n (lines 437-440)
      [] opc = 46 ->
            LET PC8_1 == WORD(ADD(s.PC8, 1))
                L_1 == BYTE(memrdr(s.mem, WORD(s.PC8)))
                t_1 == BYTE(ADD(s.t, 3))
            IN  [s EXCEPT !.L = L_1, !.PC8 = PC8_1, !.t = t_1]
        \* 2f CMA (lines 442-444)
      [] opc = 47 ->
            LET A_1 == BYTE(NOT(s.A))
            IN  [s EXCEPT !.A = A_1]
        \* 31 LXI SP,nn (lines 446-450)
      [] opc = 49 ->
            LET PC8_1 == WORD(ADD(s.PC8, 1))
                SP8_1 == WORD(memrdr(s.mem, WORD(s.PC8)))
                PC8_2 == WORD(ADD(PC8_1, 1))
                SP8_2 == WORD(OR(SP8_1, SHL(memrdr(s.mem, WORD(PC8_1)), 8)))
                t_1 == BYTE(ADD(s.t, 6))
            IN  [s EXCEPT !.PC8 = PC8_2, !.SP8 = SP8_2, !.t = t_1]
        \* 32 STA nn (lines 452-457)
      [] opc = 50 ->
            LET PC8_1 == WORD(ADD(s.PC8, 1))
                addr_1 == WORD(memrdr(s.mem, WORD(s.PC8)))
                PC8_2 == WORD(ADD(PC8_1, 1))
                addr_2 == WORD(OR(addr_1, SHL(memrdr(s.mem, WORD(PC8_1)), 8)))
                mem_1 == memwrt(s.mem, WORD(addr_2), BYTE(s.A))
                t_1 == BYTE(ADD(s.t, 9))
            IN  [s EXCEPT !.PC8 = PC8_2, !.t = t_1, !.mem = mem_1]
        \* 33 INX SP (lines 459-462)
      [] opc = 51 ->
            LET SP8_1 == WORD(ADD(s.SP8, 1))
                t_1 == BYTE(ADD(s.t, 1))
            IN  [s EXCEPT !.SP8 = SP8_1, !.t = t_1]
        \* 34 INR M (lines 464-470)
      [] opc = 52 ->
            LET addr_1 == WORD(OR(SHL(s.H, 8), s.L))
                P_1 == BYTE(memrdr(s.mem, WORD(addr_1)))
                res_1 == BYTE(ADD(P_1, 1))
                mem_1 == memwrt(s.mem, WORD(addr_1), BYTE(res_1))
                t_1 == BYTE(ADD(s.t, 5))
            IN  finish_inr([s EXCEPT !.t = t_1, !.mem = mem_1], P_1, res_1)
        \* 35 DCR M (lines 472-478)
      [] opc = 53 ->
            LET addr_1 == WORD(OR(SHL(s.H, 8), s.L))
                P_1 == BYTE(memrdr(s.mem, WORD(addr_1)))
                res_1 == BYTE(SUB(P_1, 1))
                mem_1 == memwrt(s.mem, WORD(addr_1), BYTE(res_1))
                t_1 == BYTE(ADD(s.t, 5))
            IN  finish_dcr([s EXCEPT !.t = t_1, !.mem = mem_1], P_1, res_1)
        \* 36 MVI M,n (lines 480-483)
      [] opc = 54 ->
            LET PC8_1 == WORD(ADD(s.PC8, 1))
                mem_1 == memwrt(s.mem, WORD(OR(SHL(s.H, 8), s.L)), BYTE(memrdr(s.mem, WORD(s.PC8))))
                t_1 == BYTE(ADD(s.t, 6))
            IN  [s EXCEPT !.PC8 = PC8_1, !.t = t_1, !.mem = mem_1]
        \* 37 STC (lines 485-487)
      [] opc = 55 ->
            LET F_1 == BYTE(OR(s.F, C_FLAG))
            IN  [s EXCEPT !.F = F_1]
        \* 39 DAD SP (lines 489-492)
      [] opc = 57 ->
            LET addr_1 == WORD(ADD(OR(SHL(s.H, 8), s.L), s.SP8))
                cout_1 == BYTE(OR(AND(s.H, SHR(s.SP8, 8)), AND(OR(s.H, SHR(s.SP8, 8)), NOT(SHR(addr_1, 8)))))
            IN  finish_dad(s, addr_1, cout_1)
        \* 3a LDA nn (lines 494-499)
      [] opc = 58 ->
            LET PC8_1 == WORD(ADD(s.PC8, 1))
                addr_1 == WORD(memrdr(s.mem, WORD(s.PC8)))
                PC8_2 == WORD(ADD(PC8_1, 1))
                addr_2 == WORD(OR(addr_1, SHL(memrdr(s.mem, WORD(PC8_1)), 8)))
                A_1 == BYTE(memrdr(s.mem, WORD(addr_2)))
                t_1 == BYTE(ADD(s.t, 9))
            IN  [s EXCEPT !.A = A_1, !.PC8 = PC8_2, !.t = t_1]
        \* 3b DCX SP (lines 501-504)
      [] opc = 59 ->
            LET SP8_1 == WORD(SUB(s.SP8, 1))
                t_1 == BYTE(ADD(s.t, 1))
            IN  [s EXCEPT !.SP8 = SP8_1, !.t = t_1]
        \* 3c INR A (lines 506-509)
      [] opc = 60 ->
            LET P_1 == BYTE(s.A)
                A_1 == BYTE(ADD(s.A, 1))
                res_1 == BYTE(A_1)
            IN  finish_inr([s EXCEPT !.A = A_1], P_1, res_1)
        \* 3d DCR A (lines 511-514)
      [] opc = 61 ->
            LET P_1 == BYTE(s.A)
                A_1 == BYTE(SUB(s.A, 1))
                res_1 == BYTE(A_1)
            IN  finish_dcr([s EXCEPT !.A = A_1], P_1, res_1)
        \* 3e MVI A,n (lines 516-519)
      [] opc = 62 ->
            LET PC8_1 == WORD(ADD(s.PC8, 1))
                A_1 == BYTE(memrdr(s.mem, WORD(s.PC8)))
                t_1 == BYTE(ADD(s.t, 3))
            IN  [s EXCEPT !.A = A_1, !.PC8 = PC8_1, !.t = t_1]
        \* 3f CMC (lines 521-523)
      [] opc = 63 ->
            LET F_1 == BYTE(XOR(s.F, C_FLAG))
            IN  [s EXCEPT !.F = F_1]

\* switch (memrdr(PC8++)): the arms of opcodes 0x40..0x7f
cpu_8080_40_7f(opc, s, inp) ==
        \* 7f MOV A,A, 40 MOV B,B, 49 MOV C,C, 52 MOV D,D, 5b MOV E,E, 64 MOV H,H, 6d MOV L,L (lines 166-174)
    CASE opc \in {127, 64, 73, 82, 91, 100, 109} ->
            LET t_1 == BYTE(ADD(s.t, 1))
            IN  [s EXCEPT !.t = t_1]
        \* 41 MOV B,C (lines 525-528)
      [] opc = 65 ->
            LET B_1 == BYTE(s.C)
                t_1 == BYTE(ADD(s.t, 1))
            IN  [s EXCEPT !.B = B_1, !.t = t_1]
        \* 42 MOV B,D (lines 530-533)
      [] opc = 66 ->
            LET B_1 == BYTE(s.D)
                t_1 == BYTE(ADD(s.t, 1))
            IN  [s EXCEPT !.B = B_1, !.t = t_1]
        \* 43 MOV B,E (lines 535-538)
      [] opc = 67 ->
            LET B_1 == BYTE(s.E)
                t_1 == BYTE(ADD(s.t, 1))
            IN  [s EXCEPT !.B = B_1, !.t = t_1]
        \* 44 MOV B,H (lines 540-543)
      [] opc = 68 ->
            LET B_1 == BYTE(s.H)
                t_1 == BYTE(ADD(s.t, 1))
            IN  [s EXCEPT !.B = B_1, !.t = t_1]
        \* 45 MOV B,L (lines 545-548)
      [] opc = 69 ->
            LET B_1 == BYTE(s.L)
                t_1 == BYTE(ADD(s.t, 1))
            IN  [s EXCEPT !.B = B_1, !.t = t_1]
        \* 46 MOV B,M (lines 550-553)
      [] opc = 70 ->
            LET B_1 == BYTE(memrdr(s.mem, WORD(OR(SHL(s.H, 8), s.L))))
                t_1 == BYTE(ADD(s.t, 3))
            IN  [s EXCEPT !.B = B_1, !.t = t_1]
        \* 47 MOV B,A (lines 555-558)
      [] opc = 71 ->
            LET B_1 == BYTE(s.A)
                t_1 == BYTE(ADD(s.t, 1))
            IN  [s EXCEPT !.B = B_1, !.t = t_1]
        \* 48 MOV C,B (lines 560-563)
      [] opc = 72 ->
            LET C_1 == BYTE(s.B)
                t_1 == BYTE(ADD(s.t, 1))
            IN  [s EXCEPT !.C = C_1, !.t = t_1]
        \* 4a MOV C,D (lines 565-568)
      [] opc = 74 ->
            LET C_1 == BYTE(s.D)
                t_1 == BYTE(ADD(s.t, 1))
            IN  [s EXCEPT !.C = C_1, !.t = t_1]
        \* 4b MOV C,E (lines 570-573)
      [] opc = 75 ->
            LET C_1 == BYTE(s.E)
                t_1 == BYTE(ADD(s.t, 1))
            IN  [s EXCEPT !.C = C_1, !.t = t_1]
        \* 4c MOV C,H (lines 575-578)
      [] opc = 76 ->
            LET C_1 == BYTE(s.H)
                t_1 == BYTE(ADD(s.t, 1))
            IN  [s EXCEPT !.C = C_1, !.t = t_1]
        \* 4d MOV C,L (lines 580-583)
      [] opc = 77 ->
            LET C_1 == BYTE(s.L)
                t_1 == BYTE(ADD(s.t, 1))
            IN  [s EXCEPT !.C = C_1, !.t = t_1]
        \* 4e MOV C,M (lines 585-588)
      [] opc = 78 ->
            LET C_1 == BYTE(memrdr(s.mem, WORD(OR(SHL(s.H, 8), s.L))))
                t_1 == BYTE(ADD(s.t, 3))
            IN  [s EXCEPT !.C = C_1, !.t = t_1]
        \* 4f MOV C,A (lines 590-593)
      [] opc = 79 ->
            LET C_1 == BYTE(s.A)
                t_1 == BYTE(ADD(s.t, 1))
            IN  [s EXCEPT !.C = C_1, !.t = t_1]
        \* 50 MOV D,B (lines 595-598)
      [] opc = 80 ->
            LET D_1 == BYTE(s.B)
                t_1 == BYTE(ADD(s.t, 1))
            IN  [s EXCEPT !.D = D_1, !.t = t_1]
        \* 51 MOV D,C (lines 600-603)
      [] opc = 81 ->
            LET D_1 == BYTE(s.C)
                t_1 == BYTE(ADD(s.t, 1))
            IN  [s EXCEPT !.D = D_1, !.t = t_1]
        \* 53 MOV D,E (lines 605-608)
      [] opc = 83 ->
            LET D_1 == BYTE(s.E)
                t_1 == BYTE(ADD(s.t, 1))
            IN  [s EXCEPT !.D = D_1, !.t = t_1]
        \* 54 MOV D,H (lines 610-613)
      [] opc = 84 ->
            LET D_1 == BYTE(s.H)
                t_1 == BYTE(ADD(s.t, 1))
            IN  [s EXCEPT !.D = D_1, !.t = t_1]
        \* 55 MOV D,L (lines 615-618)
      [] opc = 85 ->
            LET D_1 == BYTE(s.L)
                t_1 == BYTE(ADD(s.t, 1))
            IN  [s EXCEPT !.D = D_1, !.t = t_1]
        \* 56 MOV D,M (lines 620-623)
      [] opc = 86 ->
            LET D_1 == BYTE(memrdr(s.mem, WORD(OR(SHL(s.H, 8), s.L))))
                t_1 == BYTE(ADD(s.t, 3))
            IN  [s EXCEPT !.D = D_1, !.t = t_1]
        \* 57 MOV D,A (lines 625-628)
      [] opc = 87 ->
            LET D_1 == BYTE(s.A)
                t_1 == BYTE(ADD(s.t, 1))
            IN  [s EXCEPT !.D = D_1, !.t = t_1]
        \* 58 MOV E,B (lines 630-633)
      [] opc = 88 ->
            LET E_1 == BYTE(s.B)
                t_1 == BYTE(ADD(s.t, 1))
            IN  [s EXCEPT !.E = E_1, !.t = t_1]
        \* 59 MOV E,C (lines 635-638)
      [] opc = 89 ->
            LET E_1 == BYTE(s.C)
                t_1 == BYTE(ADD(s.t, 1))
            IN  [s EXCEPT !.E = E_1, !.t = t_1]
        \* 5a MOV E,D (lines 640-643)
      [] opc = 90 ->
            LET E_1 == BYTE(s.D)
                t_1 == BYTE(ADD(s.t, 1))
            IN  [s EXCEPT !.E = E_1, !.t = t_1]
        \* 5c MOV E,H (lines 645-648)
      [] opc = 92 ->
            LET E_1 == BYTE(s.H)
                t_1 == BYTE(ADD(s.t, 1))
            IN  [s EXCEPT !.E = E_1, !.t = t_1]
        \* 5d MOV E,L (lines 650-653)
      [] opc = 93 ->
            LET E_1 == BYTE(s.L)
                t_1 == BYTE(ADD(s.t, 1))
            IN  [s EXCEPT !.E = E_1, !.t = t_1]
        \* 5e MOV E,M (lines 655-658)
      [] opc = 94 ->
            LET E_1 == BYTE(memrdr(s.mem, WORD(OR(SHL(s.H, 8), s.L))))
                t_1 == BYTE(ADD(s.t, 3))
            IN  [s EXCEPT !.E = E_1, !.t = t_1]
        \* 5f MOV E,A (lines 660-663)
      [] opc = 95 ->
            LET E_1 == BYTE(s.A)
                t_1 == BYTE(ADD(s.t, 1))
            IN  [s EXCEPT !.E = E_1, !.t = t_1]
        \* 60 MOV H,B (lines 665-668)
      [] opc = 96 ->
            LET H_1 == BYTE(s.B)
                t_1 == BYTE(ADD(s.t, 1))
            IN  [s EXCEPT !.H = H_1, !.t = t_1]
        \* 61 MOV H,C (lines 670-673)
      [] opc = 97 ->
            LET H_1 == BYTE(s.C)
                t_1 == BYTE(ADD(s.t, 1))
            IN  [s EXCEPT !.H = H_1, !.t = t_1]
        \* 62 MOV H,D (lines 675-678)
      [] opc = 98 ->
            LET H_1 == BYTE(s.D)
                t_1 == BYTE(ADD(s.t, 1))
            IN  [s EXCEPT !.H = H_1, !.t = t_1]
        \* 63 MOV H,E (lines 680-683)
      [] opc = 99 ->
            LET H_1 == BYTE(s.E)
                t_1 == BYTE(ADD(s.t, 1))
            IN  [s EXCEPT !.H = H_1, !.t = t_1]
        \* 65 MOV H,L (lines 685-688)
      [] opc = 101 ->
            LET H_1 == BYTE(s.L)
                t_1 == BYTE(ADD(s.t, 1))
            IN  [s EXCEPT !.H = H_1, !.t = t_1]
        \* 66 MOV H,M (lines 690-693)
      [] opc = 102 ->
            LET H_1 == BYTE(memrdr(s.mem, WORD(OR(SHL(s.H, 8), s.L))))
                t_1 == BYTE(ADD(s.t, 3))
            IN  [s EXCEPT !.H = H_1, !.t = t_1]
        \* 67 MOV H,A (lines 695-698)
      [] opc = 103 ->
            LET H_1 == BYTE(s.A)
                t_1 == BYTE(ADD(s.t, 1))
            IN  [s EXCEPT !.H = H_1, !.t = t_1]
        \* 68 MOV L,B (lines 700-703)
      [] opc = 104 ->
            LET L_1 == BYTE(s.B)
                t_1 == BYTE(ADD(s.t, 1))
            IN  [s EXCEPT !.L = L_1, !.t = t_1]
        \* 69 MOV L,C (lines 705-708)
      [] opc = 105 ->
            LET L_1 == BYTE(s.C)
                t_1 == BYTE(ADD(s.t, 1))
            IN  [s EXCEPT !.L = L_1, !.t = t_1]
        \* 6a MOV L,D (lines 710-713)
      [] opc = 106 ->
            LET L_1 == BYTE(s.D)
                t_1 == BYTE(ADD(s.t, 1))
            IN  [s EXCEPT !.L = L_1, !.t = t_1]
        \* 6b MOV L,E (lines 715-718)
      [] opc = 107 ->
            LET L_1 == BYTE(s.E)
                t_1 == BYTE(ADD(s.t, 1))
            IN  [s EXCEPT !.L = L_1, !.t = t_1]
        \* 6c MOV L,H (lines 720-723)
      [] opc = 108 ->
            LET L_1 == BYTE(s.H)
                t_1 == BYTE(ADD(s.t, 1))
            IN  [s EXCEPT !.L = L_1, !.t = t_1]
        \* 6e MOV L,M (lines 725-728)
      [] opc = 110 ->
            LET L_1 == BYTE(memrdr(s.mem, WORD(OR(SHL(s.H, 8), s.L))))
                t_1 == BYTE(ADD(s.t, 3))
            IN  [s EXCEPT !.L = L_1, !.t = t_1]
        \* 6f MOV L,A (lines 730-733)
      [] opc = 111 ->
            LET L_1 == BYTE(s.A)
                t_1 == BYTE(ADD(s.t, 1))
            IN  [s EXCEPT !.L = L_1, !.t = t_1]
        \* 70 MOV M,B (lines 735-738)
      [] opc = 112 ->
            LET mem_1 == memwrt(s.mem, WORD(OR(SHL(s.H, 8), s.L)), BYTE(s.B))
                t_1 == BYTE(ADD(s.t, 3))
            IN  [s EXCEPT !.t = t_1, !.mem = mem_1]
        \* 71 MOV M,C (lines 740-743)
      [] opc = 113 ->
            LET mem_1 == memwrt(s.mem, WORD(OR(SHL(s.H, 8), s.L)), BYTE(s.C))
                t_1 == BYTE(ADD(s.t, 3))
            IN  [s EXCEPT !.t = t_1, !.mem = mem_1]
        \* 72 MOV M,D (lines 745-748)
      [] opc = 114 ->
            LET mem_1 == memwrt(s.mem, WORD(OR(SHL(s.H, 8), s.L)), BYTE(s.D))
                t_1 == BYTE(ADD(s.t, 3))
            IN  [s EXCEPT !.t = t_1, !.mem = mem_1]
        \* 73 MOV M,E (lines 750-753)
      [] opc = 115 ->
            LET mem_1 == memwrt(s.mem, WORD(OR(SHL(s.H, 8), s.L)), BYTE(s.E))
                t_1 == BYTE(ADD(s.t, 3))
            IN  [s EXCEPT !.t = t_1, !.mem = mem_1]
        \* 74 MOV M,H (lines 755-758)
      [] opc = 116 ->
            LET mem_1 == memwrt(s.mem, WORD(OR(SHL(s.H, 8), s.L)), BYTE(s.H))
                t_1 == BYTE(ADD(s.t, 3))
            IN  [s EXCEPT !.t = t_1, !.mem = mem_1]
        \* 75 MOV M,L (lines 760-763)
      [] opc = 117 ->
            LET mem_1 == memwrt(s.mem, WORD(OR(SHL(s.H, 8), s.L)), BYTE(s.L))
                t_1 == BYTE(ADD(s.t, 3))
            IN  [s EXCEPT !.t = t_1, !.mem = mem_1]
        \* 76 HLT (lines 765-769)
      [] opc = 118 ->
            LET State_1 == Halted
                t_1 == BYTE(ADD(s.t, 3))
            IN  [s EXCEPT !.t = t_1, !.State = State_1]
        \* 77 MOV M,A (lines 771-774)
      [] opc = 119 ->
            LET mem_1 == memwrt(s.mem, WORD(OR(SHL(s.H, 8), s.L)), BYTE(s.A))
                t_1 == BYTE(ADD(s.t, 3))
            IN  [s EXCEPT !.t = t_1, !.mem = mem_1]
        \* 78 MOV A,B (lines 776-779)
      [] opc = 120 ->
            LET A_1 == BYTE(s.B)
                t_1 == BYTE(ADD(s.t, 1))
            IN  [s EXCEPT !.A = A_1, !.t = t_1]
        \* 79 MOV A,C (lines 781-784)
      [] opc = 121 ->
            LET A_1 == BYTE(s.C)
                t_1 == BYTE(ADD(s.t, 1))
            IN  [s EXCEPT !.A = A_1, !.t = t_1]
        \* 7a MOV A,D (lines 786-789)
      [] opc = 122 ->
            LET A_1 == BYTE(s.D)
                t_1 == BYTE(ADD(s.t, 1))
            IN  [s EXCEPT !.A = A_1, !.t = t_1]
        \* 7b MOV A,E (lines 791-794)
      [] opc = 123 ->
            LET A_1 == BYTE(s.E)
                t_1 == BYTE(ADD(s.t, 1))
            IN  [s EXCEPT !.A = A_1, !.t = t_1]
        \* 7c MOV A,H (lines 796-799)
      [] opc = 124 ->
            LET A_1 == BYTE(s.H)
                t_1 == BYTE(ADD(s.t, 1))
            IN  [s EXCEPT !.A = A_1, !.t = t_1]
        \* 7d MOV A,L (lines 801-804)
      [] opc = 125 ->
            LET A_1 == BYTE(s.L)
                t_1 == BYTE(ADD(s.t, 1))
            IN  [s EXCEPT !.A = A_1, !.t = t_1]
        \* 7e MOV A,M (lines 806-809)
      [] opc = 126 ->
            LET A_1 == BYTE(memrdr(s.mem, WORD(OR(SHL(s.H, 8), s.L))))
                t_1 == BYTE(ADD(s.t, 3))
            IN  [s EXCEPT !.A = A_1, !.t = t_1]

\* switch (memrdr(PC8++)): the arms of opcodes 0x80..0xbf
cpu_8080_80_bf(opc, s, inp) ==
        \* 80 ADD B (lines 811-820)
    CASE opc = 128 ->
            LET P_1 == BYTE(s.B)
            IN  finish_add(s, P_1)
        \* 81 ADD C (lines 822-824)
      [] opc = 129 ->
            LET P_1 == BYTE(s.C)
            IN  finish_add(s, P_1)
        \* 82 ADD D (lines 826-828)
      [] opc = 130 ->
            LET P_1 == BYTE(s.D)
            IN  finish_add(s, P_1)
        \* 83 ADD E (lines 830-832)
      [] opc = 131 ->
            LET P_1 == BYTE(s.E)
            IN  finish_add(s, P_1)
        \* 84 ADD H (lines 834-836)
      [] opc = 132 ->
            LET P_1 == BYTE(s.H)
            IN  finish_add(s, P_1)
        \* 85 ADD L (lines 838-840)
      [] opc = 133 ->
            LET P_1 == BYTE(s.L)
            IN  finish_add(s, P_1)
        \* 86 ADD M (lines 842-845)
      [] opc = 134 ->
            LET P_1 == BYTE(memrdr(s.mem, WORD(OR(SHL(s.H, 8), s.L))))
                t_1 == BYTE(ADD(s.t, 3))
            IN  finish_add([s EXCEPT !.t = t_1], P_1)
        \* 87 ADD A (lines 847-849)
      [] opc = 135 ->
            LET P_1 == BYTE(s.A)
            IN  finish_add(s, P_1)
        \* 88 ADC B (lines 851-860)
      [] opc = 136 ->
            LET P_1 == BYTE(s.B)
            IN  finish_adc(s, P_1)
        \* 89 ADC C (lines 862-864)
      [] opc = 137 ->
            LET P_1 == BYTE(s.C)
            IN  finish_adc(s, P_1)
        \* 8a ADC D (lines 866-868)
      [] opc = 138 ->
            LET P_1 == BYTE(s.D)
            IN  finish_adc(s, P_1)
        \* 8b ADC E (lines 870-872)
      [] opc = 139 ->
            LET P_1 == BYTE(s.E)
            IN  finish_adc(s, P_1)
        \* 8c ADC H (lines 874-876)
      [] opc = 140 ->
            LET P_1 == BYTE(s.H)
            IN  finish_adc(s, P_1)
        \* 8d ADC L (lines 878-880)
      [] opc = 141 ->
            LET P_1 == BYTE(s.L)
            IN  finish_adc(s, P_1)
        \* 8e ADC M (lines 882-885)
      [] opc = 142 ->
            LET P_1 == BYTE(memrdr(s.mem, WORD(OR(SHL(s.H, 8), s.L))))
                t_1 == BYTE(ADD(s.t, 3))
            IN  finish_adc([s EXCEPT !.t = t_1], P_1)
        \* 8f ADC A (lines 887-889)
      [] opc = 143 ->
            LET P_1 == BYTE(s.A)
            IN  finish_adc(s, P_1)
        \* 90 SUB B (lines 891-901)
      [] opc = 144 ->
            LET P_1 == BYTE(s.B)
            IN  finish_sub(s, P_1)
        \* 91 SUB C (lines 903-905)
      [] opc = 145 ->
            LET P_1 == BYTE(s.C)
            IN  finish_sub(s, P_1)
        \* 92 SUB D (lines 907-909)
      [] opc = 146 ->
            LET P_1 == BYTE(s.D)
            IN  finish_sub(s, P_1)
        \* 93 SUB E (lines 911-913)
      [] opc = 147 ->
            LET P_1 == BYTE(s.E)
            IN  finish_sub(s, P_1)
        \* 94 SUB H (lines 915-917)
      [] opc = 148 ->
            LET P_1 == BYTE(s.H)
            IN  finish_sub(s, P_1)
        \* 95 SUB L (lines 919-921)
      [] opc = 149 ->
            LET P_1 == BYTE(s.L)
            IN  finish_sub(s, P_1)
        \* 96 SUB M (lines 923-926)
      [] opc = 150 ->
            LET P_1 == BYTE(memrdr(s.mem, WORD(OR(SHL(s.H, 8), s.L))))
                t_1 == BYTE(ADD(s.t, 3))
            IN  finish_sub([s EXCEPT !.t = t_1], P_1)
        \* 97 SUB A (lines 928-932)
      [] opc = 151 ->
            LET F_1 == BYTE(OR(OR(Z_FLAG, H_FLAG), P_FLAG))
                A_1 == BYTE(0)
            IN  [s EXCEPT !.A = A_1, !.F = F_1]
        \* 98 SBB B (lines 934-944)
      [] opc = 152 ->
            LET P_1 == BYTE(s.B)
            IN  finish_sbb(s, P_1)
        \* 99 SBB C (lines 946-948)
      [] opc = 153 ->
            LET P_1 == BYTE(s.C)
            IN  finish_sbb(s, P_1)
        \* 9a SBB D (lines 950-952)
      [] opc = 154 ->
            LET P_1 == BYTE(s.D)
            IN  finish_sbb(s, P_1)
        \* 9b SBB E (lines 954-956)
      [] opc = 155 ->
            LET P_1 == BYTE(s.E)
            IN  finish_sbb(s, P_1)
        \* 9c SBB H (lines 958-960)
      [] opc = 156 ->
            LET P_1 == BYTE(s.H)
            IN  finish_sbb(s, P_1)
        \* 9d SBB L (lines 962-964)
      [] opc = 157 ->
            LET P_1 == BYTE(s.L)
            IN  finish_sbb(s, P_1)
        \* 9e SBB M (lines 966-969)
      [] opc = 158 ->
            LET P_1 == BYTE(memrdr(s.mem, WORD(OR(SHL(s.H, 8), s.L))))
                t_1 == BYTE(ADD(s.t, 3))
            IN  finish_sbb([s EXCEPT !.t = t_1], P_1)
        \* 9f SBB A (lines 971-973)
      [] opc = 159 ->
            LET P_1 == BYTE(s.A)
            IN  finish_sbb(s, P_1)
        \* a0 ANA B (lines 975-983)
      [] opc = 160 ->
            LET P_1 == BYTE(s.B)
            IN  finish_ana(s, P_1)
        \* a1 ANA C (lines 985-987)
      [] opc = 161 ->
            LET P_1 == BYTE(s.C)
            IN  finish_ana(s, P_1)
        \* a2 ANA D (lines 989-991)
      [] opc = 162 ->
            LET P_1 == BYTE(s.D)
            IN  finish_ana(s, P_1)
        \* a3 ANA E (lines 993-995)
      [] opc = 163 ->
            LET P_1 == BYTE(s.E)
            IN  finish_ana(s, P_1)
        \* a4 ANA H (lines 997-999)
      [] opc = 164 ->
            LET P_1 == BYTE(s.H)
            IN  finish_ana(s, P_1)
        \* a5 ANA L (lines 1001-1003)
      [] opc = 165 ->
            LET P_1 == BYTE(s.L)
            IN  finish_ana(s, P_1)
        \* a6 ANA M (lines 1005-1008)
      [] opc = 166 ->
            LET P_1 == BYTE(memrdr(s.mem, WORD(OR(SHL(s.H, 8), s.L))))
                t_1 == BYTE(ADD(s.t, 3))
            IN  finish_ana([s EXCEPT !.t = t_1], P_1)
        \* a7 ANA A (lines 1010-1012)
      [] opc = 167 ->
            LET P_1 == BYTE(s.A)
            IN  finish_ana(s, P_1)
        \* a8 XRA B (lines 1014-1018)
      [] opc = 168 ->
            LET A_1 == BYTE(XOR(s.A, s.B))
                F_1 == BYTE(szp_flags[A_1])
            IN  [s EXCEPT !.A = A_1, !.F = F_1]
        \* a9 XRA C (lines 1020-1024)
      [] opc = 169 ->
            LET A_1 == BYTE(XOR(s.A, s.C))
                F_1 == BYTE(szp_flags[A_1])
            IN  [s EXCEPT !.A = A_1, !.F = F_1]
        \* aa XRA D (lines 1026-1030)
      [] opc = 170 ->
            LET A_1 == BYTE(XOR(s.A, s.D))
                F_1 == BYTE(szp_flags[A_1])
            IN  [s EXCEPT !.A = A_1, !.F = F_1]
        \* ab XRA E (lines 1032-1036)
      [] opc = 171 ->
            LET A_1 == BYTE(XOR(s.A, s.E))
                F_1 == BYTE(szp_flags[A_1])
            IN  [s EXCEPT !.A = A_1, !.F = F_1]
        \* ac XRA H (lines 1038-1042)
      [] opc = 172 ->
            LET A_1 == BYTE(XOR(s.A, s.H))
                F_1 == BYTE(szp_flags[A_1])
            IN  [s EXCEPT !.A = A_1, !.F = F_1]
        \* ad XRA L (lines 1044-1048)
      [] opc = 173 ->
            LET A_1 == BYTE(XOR(s.A, s.L))
                F_1 == BYTE(szp_flags[A_1])
            IN  [s EXCEPT !.A = A_1, !.F = F_1]
        \* ae XRA M (lines 1050-1055)
      [] opc = 174 ->
            LET A_1 == BYTE(XOR(s.A, memrdr(s.mem, WORD(OR(SHL(s.H, 8), s.L)))))
                t_1 == BYTE(ADD(s.t, 3))
                F_1 == BYTE(szp_flags[A_1])
            IN  [s EXCEPT !.A = A_1, !.F = F_1, !.t = t_1]
        \* af XRA A (lines 1057-1061)
      [] opc = 175 ->
            LET A_1 == BYTE(0)
                F_1 == BYTE(OR(Z_FLAG, P_FLAG))
            IN  [s EXCEPT !.A = A_1, !.F = F_1]
        \* b0 ORA B (lines 1063-1067)
      [] opc = 176 ->
            LET A_1 == BYTE(OR(s.A, s.B))
                F_1 == BYTE(szp_flags[A_1])
            IN  [s EXCEPT !.A = A_1, !.F = F_1]
        \* b1 ORA C (lines 1069-1073)
      [] opc = 177 ->
            LET A_1 == BYTE(OR(s.A, s.C))
                F_1 == BYTE(szp_flags[A_1])
            IN  [s EXCEPT !.A = A_1, !.F = F_1]
        \* b2 ORA D (lines 1075-1079)
      [] opc = 178 ->
            LET A_1 == BYTE(OR(s.A, s.D))
                F_1 == BYTE(szp_flags[A_1])
            IN  [s EXCEPT !.A = A_1, !.F = F_1]
        \* b3 ORA E (lines 1081-1085)
      [] opc = 179 ->
            LET A_1 == BYTE(OR(s.A, s.E))
                F_1 == BYTE(szp_flags[A_1])
            IN  [s EXCEPT !.A = A_1, !.F = F_1]
        \* b4 ORA H (lines 1087-1091)
      [] opc = 180 ->
            LET A_1 == BYTE(OR(s.A, s.H))
                F_1 == BYTE(szp_flags[A_1])
            IN  [s EXCEPT !.A = A_1, !.F = F_1]
        \* b5 ORA L (lines 1093-1097)
      [] opc = 181 ->
            LET A_1 == BYTE(OR(s.A, s.L))
                F_1 == BYTE(szp_flags[A_1])
            IN  [s EXCEPT !.A = A_1, !.F = F_1]
        \* b6 ORA M (lines 1099-1104)
      [] opc = 182 ->
            LET A_1 == BYTE(OR(s.A, memrdr(s.mem, WORD(OR(SHL(s.H, 8), s.L)))))
                t_1 == BYTE(ADD(s.t, 3))
                F_1 == BYTE(szp_flags[A_1])
            IN  [s EXCEPT !.A = A_1, !.F = F_1, !.t = t_1]
        \* b7 ORA A (lines 1106-1109)
      [] opc = 183 ->
            LET F_1 == BYTE(szp_flags[s.A])
            IN  [s EXCEPT !.F = F_1]
        \* b8 CMP B (lines 1111-1120)
      [] opc = 184 ->
            LET P_1 == BYTE(s.B)
            IN  finish_cmp(s, P_1)
        \* b9 CMP C (lines 1122-1124)
      [] opc = 185 ->
            LET P_1 == BYTE(s.C)
            IN  finish_cmp(s, P_1)
        \* ba CMP D (lines 1126-1128)
      [] opc = 186 ->
            LET P_1 == BYTE(s.D)
            IN  finish_cmp(s, P_1)
        \* bb CMP E (lines 1130-1132)
      [] opc = 187 ->
            LET P_1 == BYTE(s.E)
            IN  finish_cmp(s, P_1)
        \* bc CMP H (lines 1134-1136)
      [] opc = 188 ->
            LET P_1 == BYTE(s.H)
            IN  finish_cmp(s, P_1)
        \* bd CMP L (lines 1138-1140)
      [] opc = 189 ->
            LET P_1 == BYTE(s.L)
            IN  finish_cmp(s, P_1)
        \* be CMP M (lines 1142-1145)
      [] opc = 190 ->
            LET P_1 == BYTE(memrdr(s.mem, WORD(OR(SHL(s.H, 8), s.L))))
                t_1 == BYTE(ADD(s.t, 3))
            IN  finish_cmp([s EXCEPT !.t = t_1], P_1)
        \* bf CMP A (lines 1147-1150)
      [] opc = 191 ->
            LET F_1 == BYTE(OR(OR(Z_FLAG, H_FLAG), P_FLAG))
            IN  [s EXCEPT !.F = F_1]

\* switch (memrdr(PC8++)): the arms of opcodes 0xc0..0xff
cpu_8080_c0_ff(opc, s, inp) ==
        \* c0 RNZ (lines 1152-1158)
    CASE opc = 192 ->
            LET res_1 == BYTE(LNOT(AND(s.F, Z_FLAG)))
            IN  finish_retc(s, res_1)
        \* c1 POP B (lines 1160-1164)
      [] opc = 193 ->
            LET SP8_1 == WORD(ADD(s.SP8, 1))
                C_1 == BYTE(memrdr(s.mem, WORD(s.SP8)))
                SP8_2 == WORD(ADD(SP8_1, 1))
                B_1 == BYTE(memrdr(s.mem, WORD(SP8_1)))
                t_1 == BYTE(ADD(s.t, 6))
            IN  [s EXCEPT !.B = B_1, !.C = C_1, !.SP8 = SP8_2, !.t = t_1]
        \* c2 JNZ nn (lines 1166-1174)
      [] opc = 194 ->
            LET res_1 == BYTE(LNOT(AND(s.F, Z_FLAG)))
            IN  finish_jmpc(s, res_1)
        \* c3 JMP nn, cb JMP* nn (lines 1176-1182)
      [] opc \in {195, 203} ->
            LET PC8_1 == WORD(ADD(s.PC8, 1))
                addr_1 == WORD(memrdr(s.mem, WORD(s.PC8)))
                addr_2 == WORD(OR(addr_1, SHL(memrdr(s.mem, WORD(PC8_1)), 8)))
                t_1 == BYTE(ADD(s.t, 6))
                PC8_2 == WORD(addr_2)
            IN  [s EXCEPT !.PC8 = PC8_2, !.t = t_1]
        \* c4 CNZ nn (lines 1184-1192)
      [] opc = 196 ->
            LET res_1 == BYTE(LNOT(AND(s.F, Z_FLAG)))
            IN  finish_callc(s, res_1)
        \* c5 PUSH B (lines 1194-1198)
      [] opc = 197 ->
            LET SP8_1 == WORD(SUB(s.SP8, 1))
                mem_1 == memwrt(s.mem, WORD(SP8_1), BYTE(s.B))
                SP8_2 == WORD(SUB(SP8_1, 1))
                mem_2 == memwrt(mem_1, WORD(SP8_2), BYTE(s.C))
                t_1 == BYTE(ADD(s.t, 7))
            IN  [s EXCEPT !.SP8 = SP8_2, !.t = t_1, !.mem = mem_2]
        \* c6 ADI n (lines 1200-1203)
      [] opc = 198 ->
            LET PC8_1 == WORD(ADD(s.PC8, 1))
                P_1 == BYTE(memrdr(s.mem, WORD(s.PC8)))
                t_1 == BYTE(ADD(s.t, 3))
            IN  finish_add([s EXCEPT !.PC8 = PC8_1, !.t = t_1], P_1)
        \* c7 RST 0 (lines 1205-1208)
      [] opc = 199 ->
            LET addr_1 == WORD(0)
                t_1 == BYTE(ADD(s.t, 1))
            IN  finish_call([s EXCEPT !.t = t_1], addr_1)
        \* c8 RZ (lines 1210-1212)
      [] opc = 200 ->
            LET res_1 == BYTE(AND(s.F, Z_FLAG))
            IN  finish_retc(s, res_1)
        \* c9 RET, d9 RET* (lines 1214-1221)
      [] opc \in {201, 217} ->
            finish_ret(s)
        \* ca JZ nn (lines 1223-1225)
      [] opc = 202 ->
            LET res_1 == BYTE(AND(s.F, Z_FLAG))
            IN  finish_jmpc(s, res_1)
        \* cc CZ nn (lines 1227-1229)
      [] opc = 204 ->
            LET res_1 == BYTE(AND(s.F, Z_FLAG))
            IN  finish_callc(s, res_1)
        \* cd CALL nn, dd CALL* nn, ed CALL* nn, fd CALL* nn (lines 1231-1243)
      [] opc \in {205, 221, 237, 253} ->
            LET PC8_1 == WORD(ADD(s.PC8, 1))
                addr_1 == WORD(memrdr(s.mem, WORD(s.PC8)))
                PC8_2 == WORD(ADD(PC8_1, 1))
                addr_2 == WORD(OR(addr_1, SHL(memrdr(s.mem, WORD(PC8_1)), 8)))
                t_1 == BYTE(ADD(s.t, 7))
            IN  finish_call([s EXCEPT !.PC8 = PC8_2, !.t = t_1], addr_2)
        \* ce ACI n (lines 1245-1248)
      [] opc = 206 ->
            LET PC8_1 == WORD(ADD(s.PC8, 1))
                P_1 == BYTE(memrdr(s.mem, WORD(s.PC8)))
                t_1 == BYTE(ADD(s.t, 3))
            IN  finish_adc([s EXCEPT !.PC8 = PC8_1, !.t = t_1], P_1)
        \* cf RST 1 (lines 1250-1253)
      [] opc = 207 ->
            LET addr_1 == WORD(8)
                t_1 == BYTE(ADD(s.t, 1))
            IN  finish_call([s EXCEPT !.t = t_1], addr_1)
        \* d0 RNC (lines 1255-1257)
      [] opc = 208 ->
            LET res_1 == BYTE(LNOT(AND(s.F, C_FLAG)))
            IN  finish_retc(s, res_1)
        \* d1 POP D (lines 1259-1263)
      [] opc = 209 ->
            LET SP8_1 == WORD(ADD(s.SP8, 1))
                E_1 == BYTE(memrdr(s.mem, WORD(s.SP8)))
                SP8_2 == WORD(ADD(SP8_1, 1))
                D_1 == BYTE(memrdr(s.mem, WORD(SP8_1)))
                t_1 == BYTE(ADD(s.t, 6))
            IN  [s EXCEPT !.D = D_1, !.E = E_1, !.SP8 = SP8_2, !.t = t_1]
        \* d2 JNC nn (lines 1265-1267)
      [] opc = 210 ->
            LET res_1 == BYTE(LNOT(AND(s.F, C_FLAG)))
            IN  finish_jmpc(s, res_1)
        \* d3 OUT n (lines 1269-1273)
      [] opc = 211 ->
            LET PC8_1 == WORD(ADD(s.PC8, 1))
                P_1 == BYTE(memrdr(s.mem, WORD(s.PC8)))
                io_1 == Append(s.io, <<"out", P_1, P_1, s.A>>)
                t_1 == BYTE(ADD(s.t, 6))
            IN  [s EXCEPT !.PC8 = PC8_1, !.t = t_1, !.io = io_1]
        \* d4 CNC nn (lines 1275-1277)
      [] opc = 212 ->
            LET res_1 == BYTE(LNOT(AND(s.F, C_FLAG)))
            IN  finish_callc(s, res_1)
        \* d5 PUSH D (lines 1279-1283)
      [] opc = 213 ->
            LET SP8_1 == WORD(SUB(s.SP8, 1))
                mem_1 == memwrt(s.mem, WORD(SP8_1), BYTE(s.D))
                SP8_2 == WORD(SUB(SP8_1, 1))
                mem_2 == memwrt(mem_1, WORD(SP8_2), BYTE(s.E))
                t_1 == BYTE(ADD(s.t, 7))
            IN  [s EXCEPT !.SP8 = SP8_2, !.t = t_1, !.mem = mem_2]
        \* d6 SUI n (lines 1285-1288)
      [] opc = 214 ->
            LET PC8_1 == WORD(ADD(s.PC8, 1))
                P_1 == BYTE(memrdr(s.mem, WORD(s.PC8)))
                t_1 == BYTE(ADD(s.t, 3))
            IN  finish_sub([s EXCEPT !.PC8 = PC8_1, !.t = t_1], P_1)
        \* d7 RST 2 (lines 1290-1293)
      [] opc = 215 ->
            LET addr_1 == WORD(16)
                t_1 == BYTE(ADD(s.t, 1))
            IN  finish_call([s EXCEPT !.t = t_1], addr_1)
        \* d8 RC (lines 1295-1297)
      [] opc = 216 ->
            LET res_1 == BYTE(AND(s.F, C_FLAG))
            IN  finish_retc(s, res_1)
        \* da JC nn (lines 1299-1301)
      [] opc = 218 ->
            LET res_1 == BYTE(AND(s.F, C_FLAG))
            IN  finish_jmpc(s, res_1)
        \* db IN n (lines 1303-1307)
      [] opc = 219 ->
            LET PC8_1 == WORD(ADD(s.PC8, 1))
                P_1 == BYTE(memrdr(s.mem, WORD(s.PC8)))
                io_1 == Append(s.io, <<"in", BYTE(P_1), BYTE(P_1), inp>>)
                A_1 == BYTE(inp)
                t_1 == BYTE(ADD(s.t, 6))
            IN  [s EXCEPT !.A = A_1, !.PC8 = PC8_1, !.t = t_1, !.io = io_1]
        \* dc CC nn (lines 1309-1311)
      [] opc = 220 ->
            LET res_1 == BYTE(AND(s.F, C_FLAG))
            IN  finish_callc(s, res_1)
        \* de SBI n (lines 1313-1316)
      [] opc = 222 ->
            LET PC8_1 == WORD(ADD(s.PC8, 1))
                P_1 == BYTE(memrdr(s.mem, WORD(s.PC8)))
                t_1 == BYTE(ADD(s.t, 3))
            IN  finish_sbb([s EXCEPT !.PC8 = PC8_1, !.t = t_1], P_1)
        \* df RST 3 (lines 1318-1321)
      [] opc = 223 ->
            LET addr_1 == WORD(24)
                t_1 == BYTE(ADD(s.t, 1))
            IN  finish_call([s EXCEPT !.t = t_1], addr_1)
        \* e0 RPO (lines 1323-1325)
      [] opc = 224 ->
            LET res_1 == BYTE(LNOT(AND(s.F, P_FLAG)))
            IN  finish_retc(s, res_1)
        \* e1 POP H (lines 1327-1331)
      [] opc = 225 ->
            LET SP8_1 == WORD(ADD(s.SP8, 1))
                L_1 == BYTE(memrdr(s.mem, WORD(s.SP8)))
                SP8_2 == WORD(ADD(SP8_1, 1))
                H_1 == BYTE(memrdr(s.mem, WORD(SP8_1)))
                t_1 == BYTE(ADD(s.t, 6))
            IN  [s EXCEPT !.H = H_1, !.L = L_1, !.SP8 = SP8_2, !.t = t_1]
        \* e2 JPO nn (lines 1333-1335)
      [] opc = 226 ->
            LET res_1 == BYTE(LNOT(AND(s.F, P_FLAG)))
            IN  finish_jmpc(s, res_1)
        \* e3 XTHL (lines 1337-1345)
      [] opc = 227 ->
            LET P_1 == BYTE(memrdr(s.mem, WORD(s.SP8)))
                mem_1 == memwrt(s.mem, WORD(s.SP8), BYTE(s.L))
                L_1 == BYTE(P_1)
                P_2 == BYTE(memrdr(mem_1, WORD(ADD(s.SP8, 1))))
                mem_2 == memwrt(mem_1, WORD(ADD(s.SP8, 1)), BYTE(s.H))
                H_1 == BYTE(P_2)
                t_1 == BYTE(ADD(s.t, 14))
            IN  [s EXCEPT !.H = H_1, !.L = L_1, !.t = t_1, !.mem = mem_2]
        \* e4 CPO nn (lines 1347-1349)
      [] opc = 228 ->
            LET res_1 == BYTE(LNOT(AND(s.F, P_FLAG)))
            IN  finish_callc(s, res_1)
        \* e5 PUSH H (lines 1351-1355)
      [] opc = 229 ->
            LET SP8_1 == WORD(SUB(s.SP8, 1))
                mem_1 == memwrt(s.mem, WORD(SP8_1), BYTE(s.H))
                SP8_2 == WORD(SUB(SP8_1, 1))
                mem_2 == memwrt(mem_1, WORD(SP8_2), BYTE(s.L))
                t_1 == BYTE(ADD(s.t, 7))
            IN  [s EXCEPT !.SP8 = SP8_2, !.t = t_1, !.mem = mem_2]
        \* e6 ANI n (lines 1357-1360)
      [] opc = 230 ->
            LET PC8_1 == WORD(ADD(s.PC8, 1))
                P_1 == BYTE(memrdr(s.mem, WORD(s.PC8)))
                t_1 == BYTE(ADD(s.t, 3))
            IN  finish_ana([s EXCEPT !.PC8 = PC8_1, !.t = t_1], P_1)
        \* e7 RST 4 (lines 1362-1365)
      [] opc = 231 ->
            LET addr_1 == WORD(32)
                t_1 == BYTE(ADD(s.t, 1))
            IN  finish_call([s EXCEPT !.t = t_1], addr_1)
        \* e8 RPE (lines 1367-1369)
      [] opc = 232 ->
            LET res_1 == BYTE(AND(s.F, P_FLAG))
            IN  finish_retc(s, res_1)
        \* e9 PCHL (lines 1371-1374)
      [] opc = 233 ->
            LET PC8_1 == WORD(OR(SHL(s.H, 8), s.L))
                t_1 == BYTE(ADD(s.t, 1))
            IN  [s EXCEPT !.PC8 = PC8_1, !.t = t_1]
        \* ea JPE nn (lines 1376-1378)
      [] opc = 234 ->
            LET res_1 == BYTE(AND(s.F, P_FLAG))
            IN  finish_jmpc(s, res_1)
        \* eb XCHG (lines 1380-1387)
      [] opc = 235 ->
            LET P_1 == BYTE(s.D)
                D_1 == BYTE(s.H)
                H_1 == BYTE(P_1)
                P_2 == BYTE(s.E)
                E_1 == BYTE(s.L)
                L_1 == BYTE(P_2)
            IN  [s EXCEPT !.D = D_1, !.E = E_1, !.H = H_1, !.L = L_1]
        \* ec CPE nn (lines 1389-1391)
      [] opc = 236 ->
            LET res_1 == BYTE(AND(s.F, P_FLAG))
            IN  finish_callc(s, res_1)
        \* ee XRI n (lines 1393-1398)
      [] opc = 238 ->
            LET PC8_1 == WORD(ADD(s.PC8, 1))
                A_1 == BYTE(XOR(s.A, memrdr(s.mem, WORD(s.PC8))))
                t_1 == BYTE(ADD(s.t, 3))
                F_1 == BYTE(szp_flags[A_1])
            IN  [s EXCEPT !.A = A_1, !.F = F_1, !.PC8 = PC8_1, !.t = t_1]
        \* ef RST 5 (lines 1400-1403)
      [] opc = 239 ->
            LET addr_1 == WORD(40)
                t_1 == BYTE(ADD(s.t, 1))
            IN  finish_call([s EXCEPT !.t = t_1], addr_1)
        \* f0 RP (lines 1405-1407)
      [] opc = 240 ->
            LET res_1 == BYTE(LNOT(AND(s.F, S_FLAG)))
            IN  finish_retc(s, res_1)
        \* f1 POP PSW (lines 1409-1413)
      [] opc = 241 ->
            LET SP8_1 == WORD(ADD(s.SP8, 1))
                F_1 == BYTE(memrdr(s.mem, WORD(s.SP8)))
                SP8_2 == WORD(ADD(SP8_1, 1))
                A_1 == BYTE(memrdr(s.mem, WORD(SP8_1)))
                t_1 == BYTE(ADD(s.t, 6))
            IN  [s EXCEPT !.A = A_1, !.F = F_1, !.SP8 = SP8_2, !.t = t_1]
        \* f2 JP nn (lines 1415-1417)
      [] opc = 242 ->
            LET res_1 == BYTE(LNOT(AND(s.F, S_FLAG)))
            IN  finish_jmpc(s, res_1)
        \* f3 DI (lines 1419-1421)
      [] opc = 243 ->
            LET IFF_1 == BYTE(0)
            IN  [s EXCEPT !.IFF = IFF_1]
        \* f4 CP nn (lines 1423-1425)
      [] opc = 244 ->
            LET res_1 == BYTE(LNOT(AND(s.F, S_FLAG)))
            IN  finish_callc(s, res_1)
        \* f5 PUSH PSW (lines 1427-1431)
      [] opc = 245 ->
            LET SP8_1 == WORD(SUB(s.SP8, 1))
                mem_1 == memwrt(s.mem, WORD(SP8_1), BYTE(s.A))
                SP8_2 == WORD(SUB(SP8_1, 1))
                mem_2 == memwrt(mem_1, WORD(SP8_2), BYTE(OR(AND(s.F, NOT(OR(Y_FLAG, X_FLAG))), N_FLAG)))
                t_1 == BYTE(ADD(s.t, 7))
            IN  [s EXCEPT !.SP8 = SP8_2, !.t = t_1, !.mem = mem_2]
        \* f6 ORI n (lines 1433-1438)
      [] opc = 246 ->
            LET PC8_1 == WORD(ADD(s.PC8, 1))
                A_1 == BYTE(OR(s.A, memrdr(s.mem, WORD(s.PC8))))
                t_1 == BYTE(ADD(s.t, 3))
                F_1 == BYTE(szp_flags[A_1])
            IN  [s EXCEPT !.A = A_1, !.F = F_1, !.PC8 = PC8_1, !.t = t_1]
        \* f7 RST 6 (lines 1440-1443)
      [] opc = 247 ->
            LET addr_1 == WORD(48)
                t_1 == BYTE(ADD(s.t, 1))
            IN  finish_call([s EXCEPT !.t = t_1], addr_1)
        \* f8 RM (lines 1445-1447)
      [] opc = 248 ->
            LET res_1 == BYTE(AND(s.F, S_FLAG))
            IN  finish_retc(s, res_1)
        \* f9 SPHL (lines 1449-1452)
      [] opc = 249 ->
            LET SP8_1 == WORD(OR(SHL(s.H, 8), s.L))
                t_1 == BYTE(ADD(s.t, 1))
            IN  [s EXCEPT !.SP8 = SP8_1, !.t = t_1]
        \* fa JM nn (lines 1454-1456)
      [] opc = 250 ->
            LET res_1 == BYTE(AND(s.F, S_FLAG))
            IN  finish_jmpc(s, res_1)
        \* fb EI (lines 1458-1460)
      [] opc = 251 ->
            LET IFF_1 == BYTE(3)
            IN  [s EXCEPT !.IFF = IFF_1]
        \* fc CM nn (lines 1462-1464)
      [] opc = 252 ->
            LET res_1 == BYTE(AND(s.F, S_FLAG))
            IN  finish_callc(s, res_1)
        \* fe CPI n (lines 1466-1469)
      [] opc = 254 ->
            LET PC8_1 == WORD(ADD(s.PC8, 1))
                P_1 == BYTE(memrdr(s.mem, WORD(s.PC8)))
                t_1 == BYTE(ADD(s.t, 3))
            IN  finish_cmp([s EXCEPT !.PC8 = PC8_1, !.t = t_1], P_1)
        \* ff RST 7 (lines 1471-1474)
      [] opc = 255 ->
            LET addr_1 == WORD(56)
                t_1 == BYTE(ADD(s.t, 1))
            IN  finish_call([s EXCEPT !.t = t_1], addr_1)
\* a faulty switch: CB, DD, ED, FD are skipped like the Z80's prefixes
cpu_8080_switch_prefix(opc, s, inp) ==
    CASE opc \in {203, 221, 237, 253} -> s
      [] opc < 64 -> cpu_8080_00_3f(opc, s, inp)
      [] opc < 128 -> cpu_8080_40_7f(opc, s, inp)
      [] opc < 192 -> cpu_8080_80_bf(opc, s, inp)
      [] OTHER -> cpu_8080_c0_ff(opc, s, inp)

\* a faulty switch: the undocumented opcodes are left to the default arm
cpu_8080_switch_undoc(opc, s, inp) ==
    CASE opc \in {8, 16, 24, 32, 40, 48, 56, 203, 217, 221, 237, 253} ->
            [s EXCEPT !.t = 0]
      [] opc < 64 -> cpu_8080_00_3f(opc, s, inp)
      [] opc < 128 -> cpu_8080_40_7f(opc, s, inp)
      [] opc < 192 -> cpu_8080_80_bf(opc, s, inp)
      [] OTHER -> cpu_8080_c0_ff(opc, s, inp)

\* a faulty switch: EI sets one flip-flop only, IFF = 1
cpu_8080_switch_iff1(opc, s, inp) ==
    CASE opc = 251 -> [s EXCEPT !.IFF = 1]
      [] opc < 64 -> cpu_8080_00_3f(opc, s, inp)
      [] opc < 128 -> cpu_8080_40_7f(opc, s, inp)
      [] opc < 192 -> cpu_8080_80_bf(opc, s, inp)
      [] OTHER -> cpu_8080_c0_ff(opc, s, inp)

\* a faulty switch: OUT n passes 0 as its second port argument
cpu_8080_switch_port(opc, s, inp) ==
    CASE opc = 211 ->
            LET P_1 == BYTE(memrdr(s.mem, WORD(s.PC8)))
            IN  [s EXCEPT !.PC8 = WORD(ADD(s.PC8, 1)), !.t = BYTE(ADD(s.t, 6)),
                          !.io = Append(s.io, << "out", P_1, 0, s.A >>)]
      [] opc < 64 -> cpu_8080_00_3f(opc, s, inp)
      [] opc < 128 -> cpu_8080_40_7f(opc, s, inp)
      [] opc < 192 -> cpu_8080_80_bf(opc, s, inp)
      [] OTHER -> cpu_8080_c0_ff(opc, s, inp)

\* a faulty switch: XTHL exchanges H with the byte at SP and L with the next
cpu_8080_switch_xthl(opc, s, inp) ==
    CASE opc = 227 ->
            LET P_1 == BYTE(memrdr(s.mem, WORD(s.SP8)))
                mem_1 == memwrt(s.mem, WORD(s.SP8), BYTE(s.H))
                P_2 == BYTE(memrdr(mem_1, WORD(ADD(s.SP8, 1))))
                mem_2 == memwrt(mem_1, WORD(ADD(s.SP8, 1)), BYTE(s.L))
            IN  [s EXCEPT !.H = P_1, !.L = P_2, !.t = BYTE(ADD(s.t, 14)),
                          !.mem = mem_2]
      [] opc < 64 -> cpu_8080_00_3f(opc, s, inp)
      [] opc < 128 -> cpu_8080_40_7f(opc, s, inp)
      [] opc < 192 -> cpu_8080_80_bf(opc, s, inp)
      [] OTHER -> cpu_8080_c0_ff(opc, s, inp)

\* a faulty switch: RAR keeps bit 7 of A instead of taking the carry into it
cpu_8080_switch_rar(opc, s, inp) ==
    CASE opc = 31 ->
            LET F_1 == BYTE(OR(AND(s.F, NOT(C_FLAG)), SHL(AND(s.A, 1), C_SHIFT)))
                A_1 == BYTE(OR(SHR(s.A, 1), AND(s.A, 128)))
            IN  [s EXCEPT !.A = A_1, !.F = F_1]
      [] opc < 64 -> cpu_8080_00_3f(opc, s, inp)
      [] opc < 128 -> cpu_8080_40_7f(opc, s, inp)
      [] opc < 192 -> cpu_8080_80_bf(opc, s, inp)
      [] OTHER -> cpu_8080_c0_ff(opc, s, inp)

\* a faulty switch: STC complements the carry as CMC does
cpu_8080_switch_stc(opc, s, inp) ==
    CASE opc = 55 -> [s EXCEPT !.F = BYTE(XOR(s.F, C_FLAG))]
      [] opc < 64 -> cpu_8080_00_3f(opc, s, inp)
      [] opc < 128 -> cpu_8080_40_7f(opc, s, inp)
      [] opc < 192 -> cpu_8080_80_bf(opc, s, inp)
      [] OTHER -> cpu_8080_c0_ff(opc, s, inp)

\* a faulty switch: DAA looks at the nibbles of A only, not at H and C
cpu_8080_switch_daa(opc, s, inp) ==
    CASE opc = 39 ->
            LET P_1 == IF GT(AND(s.A, 15), 9) # 0 THEN 6 ELSE 0
                P_2 == IF GT(s.A, 153) # 0 THEN OR(P_1, 96) ELSE P_1
                res_1 == BYTE(ADD(s.A, P_2))
                cout_1 == BYTE(OR(AND(s.A, P_2), AND(OR(s.A, P_2), NOT(res_1))))
                F_1 == BYTE(OR(OR(OR(SHL(GT(s.A, 153), C_SHIFT), AND(s.F, C_FLAG)),
                                  SHL(AND(SHR(cout_1, 3), 1), H_SHIFT)),
                               szp_flags[res_1]))
            IN  [s EXCEPT !.A = res_1, !.F = F_1]
      [] opc < 64 -> cpu_8080_00_3f(opc, s, inp)
      [] opc < 128 -> cpu_8080_40_7f(opc, s, inp)
      [] opc < 192 -> cpu_8080_80_bf(opc, s, inp)
      [] OTHER -> cpu_8080_c0_ff(opc, s, inp)

\* the whole switch: one executed opcode, from the state after the fetch
cpu_8080_switch(opc, s, inp) ==
    CASE opc < 64 -> cpu_8080_00_3f(opc, s, inp)
      [] opc < 128 -> cpu_8080_40_7f(opc, s, inp)
      [] opc < 192 -> cpu_8080_80_bf(opc, s, inp)
      [] opc < 256 -> cpu_8080_c0_ff(opc, s, inp)
      [] OTHER -> [s EXCEPT !.t = 0]

\* tstates += t
account(ts, t) == ULONG(ts.hi + (ts.lo + t) \div 65536, ts.lo + t)

\* a faulty pass: PUSH PSW stores F as it is, without the mask
instruction_rawpsw(s, inp) ==
    LET opc == memrdr(s.mem, s.PC8)
        sf == [s EXCEPT !.t = 4, !.PC8 = WORD(ADD(s.PC8, 1))]
        d == cpu_8080_switch(opc, sf, inp)
    IN  IF opc = 245 THEN [d EXCEPT !.mem = memwrt(d.mem, d.SP8, s.F)] ELSE d

\* a faulty pass: PC is kept in more than 16 bits and runs past FFFF
instruction_wide(s, inp) ==
    LET s4 == [s EXCEPT !.t = 4]
        opc == memrdr(s4.mem, s4.PC8)
        sf == [s4 EXCEPT !.PC8 = s4.PC8 + 1]
    IN  cpu_8080_switch(opc, sf, inp)

\* one pass of the loop body: t = 4, fetch, dispatch
instruction(s, inp) ==
    LET s4 == [s EXCEPT !.t = 4]
        opc == memrdr(s4.mem, s4.PC8)
        sf == [s4 EXCEPT !.PC8 = WORD(ADD(s4.PC8, 1))]
    IN  cpu_8080_switch(opc, sf, inp)

-----------------------------------------------------------------------------
(* Bounds of the exploration.                                              *)

\* instructions executed in one explored run
MaxInstr == 3

\* how many of the last instruction slots before the counter wraps are explored
LateSlots == 3

RegNames == {"A", "B", "C", "D", "E", "H", "L", "F", "IFF", "PC8", "SP8"}

\* static storage is zero-initialised
ZeroRegs == [r \in RegNames |-> 0]

\* the bytes io_in may return
InBytes == {0, 126, 255}

Inputs(opc) == IF opc = 219 THEN InBytes ELSE {0}

\* memory images: bytes loaded at 0, 1, 2, ... over a background byte
Image(bytes, d) == [k |-> [a \in 0..(Len(bytes) - 1) |-> bytes[a + 1]], d |-> d]

\* 3E 02 C6 03 76: MVI A,2; ADI 3; HLT
ProgAdd == << 62, 2, 198, 3, 118 >>

\* the background bytes tried: NOP, HLT
Fills == {0, 118}

\* the operand bytes tried after the first opcode
Operands == { << 3, 0 >>, << 0, 48 >> }

Images ==
    {Image(<< o, w[1], w[2] >>, d) : o \in 0..255, w \in Operands, d \in Fills}
        \cup {Image(ProgAdd, 0)}

\* random(255) yields 0..254 and random(65535) yields 0..65534; a few draws
RandomRegs ==
    {[A |-> a, B |-> 18, C |-> 52, D |-> 86, E |-> 120, H |-> 32, L |-> 1,
      F |-> f, SP8 |-> sp] : a \in {154}, f \in {40, 213}, sp \in {12288}}

-----------------------------------------------------------------------------
(* The sketch as a state machine.                                          *)

Init ==
    /\ cpu_state = ZeroRegs
    /\ loc = [r \in RegNames \cup {"t"} |-> 0]
    /\ State = Running
    /\ tstates = ULONG(0, 0)
    /\ mem \in Images
    /\ io = << >>
    /\ pc = "init_cpu"
    /\ cached \in BOOLEAN
    /\ sreg = Running
    /\ op = -1
    /\ pre = [loc |-> loc, State |-> State, mem |-> mem, io |-> io, tstates |-> tstates]
    /\ brk = FALSE
    /\ at_entry = "none"
    /\ n = 0

\* the machine as cpu_8080's code sees it
Ctx ==
    [A |-> loc.A, B |-> loc.B, C |-> loc.C, D |-> loc.D, E |-> loc.E,
     H |-> loc.H, L |-> loc.L, F |-> loc.F, IFF |-> loc.IFF,
     PC8 |-> loc.PC8, SP8 |-> loc.SP8, t |-> loc.t,
     State |-> State, mem |-> mem, io |-> io]

Snapshot ==
    [loc |-> loc, State |-> State, mem |-> mem, io |-> io, tstates |-> tstates]

\* init_cpu(&cpu_state), then init_memory() and config() leave the image in memory
init_cpu ==
    /\ pc = "init_cpu"
    /\ \E r \in RandomRegs :
          cpu_state' = [cpu_state EXCEPT !.PC8 = 0, !.SP8 = r.SP8, !.A = r.A,
                           !.B = r.B, !.C = r.C, !.D = r.D, !.E = r.E,
                           !.H = r.H, !.L = r.L, !.F = r.F]
    /\ pc' = "cpu_8080"
    /\ UNCHANGED << loc, State, tstates, mem, io, cached, sreg, op, pre, brk, at_entry, n >>

\* cpu_8080: the copies A = cpu_state->A ... SP8 = cpu_state->SP8
cpu_8080_entry ==
    /\ pc = "cpu_8080"
    /\ loc' = [r \in RegNames \cup {"t"} |-> IF r = "t" THEN loc.t ELSE cpu_state[r]]
    /\ sreg' = State
    /\ at_entry' = State
    /\ pc' = "fetch"
    /\ UNCHANGED << cpu_state, State, tstates, mem, io, cached, op, pre, brk, n >>

\* cpu_8080: one pass of the do-body, through tstates += t
cpu_8080_step ==
    /\ pc = "fetch"
    /\ n < MaxInstr
    /\ \E inp \in Inputs(memrdr(mem, loc.PC8)) :
          \E d \in {instruction(Ctx, inp)} :
              /\ loc' = [r \in RegNames \cup {"t"} |-> d[r]]
              /\ State' = d.State
              /\ sreg' = IF d.State # State THEN d.State ELSE sreg
              /\ mem' = d.mem
              /\ io' = d.io
              /\ tstates' = account(tstates, d.t)
    /\ op' = memrdr(mem, loc.PC8)
    /\ pre' = Snapshot
    /\ n' = n + 1
    /\ pc' = "check"
    /\ UNCHANGED << cpu_state, cached, brk, at_entry >>

\* cpu_8080: while (State == Running), and the write-back after the loop
cpu_8080_check ==
    /\ pc = "check"
    /\ LET seen == IF cached THEN sreg ELSE State
       IN  IF seen = Running
           THEN /\ pc' = "fetch"
                /\ UNCHANGED cpu_state
           ELSE /\ pc' = "done"
                /\ cpu_state' = [r \in RegNames |-> loc[r]]
    /\ UNCHANGED << loc, State, tstates, mem, io, cached, sreg, op, pre, brk, at_entry, n >>

\* user_int: the break switch, attached in setup() and live until exit()
user_int ==
    /\ pc # "exit"
    /\ State' = Interrupted
    /\ brk' = TRUE
    /\ UNCHANGED << cpu_state, loc, tstates, mem, io, pc, cached, sreg, op, pre, at_entry, n >>

\* loop(): the report after cpu_8080 returns, then exit(0)
loop_exit ==
    /\ pc = "done"
    /\ pc' = "exit"
    /\ UNCHANGED << cpu_state, loc, State, tstates, mem, io, cached, sreg, op, pre, brk, at_entry, n >>

Next ==
    \/ init_cpu
    \/ cpu_8080_entry
    \/ cpu_8080_step
    \/ cpu_8080_check
    \/ user_int
    \/ loop_exit

Spec == Init /\ [][Next]_vars

-----------------------------------------------------------------------------
(* A long run.  With memory all NOP the machine, 2^30 - j instructions      *)
(* after init_cpu, is about to fetch at 65536 - j with                      *)
(* tstates = 2^32 - 4 * j.                                                  *)

InitLate ==
    \E j \in 1..LateSlots, r \in RandomRegs :
        LET regs == [ZeroRegs EXCEPT !.A = r.A, !.B = r.B, !.C = r.C, !.D = r.D,
                                     !.E = r.E, !.H = r.H, !.L = r.L, !.F = r.F,
                                     !.SP8 = r.SP8]
            at(k) == [x \in RegNames \cup {"t"} |->
                        CASE x = "t" -> 4
                          [] x = "PC8" -> 65536 - k
                          [] OTHER -> regs[x]]
        IN  /\ cpu_state = regs
            /\ loc = at(j)
            /\ State = Running
            /\ tstates = ULONG(65535, 65536 - 4 * j)
            /\ mem = Image(<< >>, 0)
            /\ io = << >>
            /\ pc = "fetch"
            /\ cached \in BOOLEAN
            /\ sreg = Running
            /\ op = 0
            /\ pre = [loc |-> at(j + 1), State |-> Running, mem |-> Image(<< >>, 0),
                      io |-> << >>, tstates |-> ULONG(65535, 65536 - 4 * (j + 1))]
            /\ brk = FALSE
            /\ at_entry = Running
            /\ n = 0

NextLate == cpu_8080_step \/ cpu_8080_check \/ user_int \/ loop_exit

SpecLate == InitLate /\ [][NextLate]_vars

-----------------------------------------------------------------------------
(* One instruction of the accumulator group, from every accumulator value.  *)

\* the operand selected by the low three bits of an opcode 10ooosss
Reg8 == << "B", "C", "D", "E", "H", "L", "M", "A" >>

AddOps == (128..143) \cup {198, 206}        \* ADD, ADC, ADI, ACI
CarryOps == (136..143) \cup (152..159) \cup {206, 222}   \* ADC, ACI, SBB, SBI
SubOps == (144..159) \cup (184..191) \cup {214, 222, 254}  \* SUB SBB CMP SUI SBI CPI
CmpOps == (184..191) \cup {254}             \* CMP, CPI

Edge == {0, 1, 9, 15, 16, 127, 128, 153, 255}

\* Operand values tried with accumulator a: every byte for the B form and
\* the immediate form, a itself for the A form, the edges for the others.
Operands8(opc, a) ==
    CASE opc >= 192 -> 0..255
      [] opc % 8 = 0 -> 0..255
      [] opc % 8 = 7 -> {a}
      [] OTHER -> Edge

Flags8(opc) == IF opc >= 192 \/ opc % 8 = 0 THEN 0..1 ELSE {0, 1, 212, 213}

\* cpu_8080 about to fetch opc at 0 with A = a, flags f and operand b
AluStart(opc, a, b, f) ==
    LET src == IF opc >= 192 THEN "I" ELSE Reg8[(opc % 8) + 1]
        base == [A |-> a, B |-> 18, C |-> 52, D |-> 86, E |-> 120, H |-> 32,
                 L |-> 1, F |-> f, IFF |-> 0, PC8 |-> 0, SP8 |-> 12288]
        regs == IF src \in {"B", "C", "D", "E", "H", "L"}
                THEN [base EXCEPT ![src] = b] ELSE base
        image == CASE src = "I" -> Image(<< opc, b >>, 118)
                   [] src = "M" -> memwrt(Image(<< opc >>, 118), 8193, b)
                   [] OTHER -> Image(<< opc >>, 118)
        l == [r \in RegNames \cup {"t"} |-> IF r = "t" THEN 0 ELSE regs[r]]
    IN  /\ cpu_state = regs
        /\ loc = l
        /\ State = Running
        /\ tstates = ULONG(0, 0)
        /\ mem = image
        /\ io = << >>
        /\ pc = "fetch"
        /\ cached = FALSE
        /\ sreg = Running
        /\ op = -1
        /\ pre = [loc |-> l, State |-> Running, mem |-> image, io |-> << >>,
                  tstates |-> ULONG(0, 0)]
        /\ brk = FALSE
        /\ at_entry = Running
        /\ n = 0

AluInit(ops) ==
    \E opc \in ops : \E a \in 0..255 : \E b \in Operands8(opc, a) :
        \E f \in Flags8(opc) : AluStart(opc, a, b, f)

NextOne == n = 0 /\ cpu_8080_step

InitAdd == AluInit(AddOps)

SpecAdd == InitAdd /\ [][NextOne]_vars

InitSub == AluInit(SubOps)

SpecSub == InitSub /\ [][NextOne]_vars

InitDaa == \E a \in 0..255 : \E f \in 0..255 : AluStart(39, a, 0, f)

SpecDaa == InitDaa /\ [][NextOne]_vars

-----------------------------------------------------------------------------
(* One instruction from a given register file and memory image.             *)

\* the register file the draws of RandomRegs give, F left to the caller
BaseRegs(f) ==
    [A |-> 154, B |-> 18, C |-> 52, D |-> 86, E |-> 120, H |-> 32, L |-> 1,
     F |-> f, IFF |-> 0, PC8 |-> 0, SP8 |-> 12288]

\* cpu_8080 about to fetch with registers regs and memory image
Boot(regs, image) ==
    LET l == [r \in RegNames \cup {"t"} |-> IF r = "t" THEN 0 ELSE regs[r]]
    IN  /\ cpu_state = regs
        /\ loc = l
        /\ State = Running
        /\ tstates = ULONG(0, 0)
        /\ mem = image
        /\ io = << >>
        /\ pc = "fetch"
        /\ cached = FALSE
        /\ sreg = Running
        /\ op = -1
        /\ pre = [loc |-> l, State |-> Running, mem |-> image, io |-> << >>,
                  tstates |-> ULONG(0, 0)]
        /\ brk = FALSE
        /\ at_entry = Running
        /\ n = 0

\* flag bytes tried where every byte would be too many
FlagBytes == {0, 1, 40, 41, 212, 213, 254, 255}

\* INR and DCR: opcodes 00ttt100 and 00ttt101
IncOps == {o \in 0..63 : o % 8 = 4}
DecOps == {o \in 0..63 : o % 8 = 5}

\* the target of INR / DCR holds p: a register, or the byte at HL
InitInr ==
    \E opc \in IncOps \cup DecOps : \E p \in 0..255 : \E f \in FlagBytes :
        LET tgt == Reg8[((opc \div 8) % 8) + 1]
            regs == IF tgt = "M" THEN BaseRegs(f) ELSE [BaseRegs(f) EXCEPT ![tgt] = p]
            image == IF tgt = "M"
                     THEN memwrt(Image(<< opc >>, 118), regs.H * 256 + regs.L, p)
                     ELSE Image(<< opc >>, 118)
        IN  Boot(regs, image)

SpecInr == InitInr /\ [][NextOne]_vars

\* ANA, XRA, ORA with their immediate forms, and the arms SUB A and CMP A
AnaOps == (160..167) \cup {230}
XraOps == (168..175) \cup {238}
OraOps == (176..183) \cup {246}
LogicOps == AnaOps \cup XraOps \cup OraOps

\* every operand byte for the B form, A itself for the A form, the edges else
InitLogic ==
    \E opc \in LogicOps \cup {151, 191} : \E a \in 0..255 :
        \E b \in (CASE opc < 192 /\ opc % 8 = 0 -> 0..255
                    [] opc < 192 /\ opc % 8 = 7 -> {a}
                    [] OTHER -> Edge) :
            \E f \in {0, 255} : AluStart(opc, a, b, f)

SpecLogic == InitLogic /\ [][NextOne]_vars

\* DAD B, DAD D, DAD H, DAD SP
DadOps == {9, 25, 41, 57}

LowBytes == {0, 1, 128, 255}
HighBytes == {0, 1, 15, 16, 63, 64, 127, 128, 129, 191, 192, 240, 254, 255}

\* HL = h:l with every h, the operand pair hi:lo (HL itself for DAD H)
InitDad ==
    \E opc \in DadOps : \E h \in 0..255 : \E l \in LowBytes :
        \E hi \in (IF opc = 41 THEN {h} ELSE HighBytes) :
            \E lo \in (IF opc = 41 THEN {l} ELSE LowBytes) : \E f \in {0, 255} :
                LET hl == [BaseRegs(f) EXCEPT !.H = h, !.L = l]
                    regs == CASE opc = 9 -> [hl EXCEPT !.B = hi, !.C = lo]
                              [] opc = 25 -> [hl EXCEPT !.D = hi, !.E = lo]
                              [] opc = 57 -> [hl EXCEPT !.SP8 = hi * 256 + lo]
                              [] OTHER -> hl
                IN  Boot(regs, Image(<< opc >>, 118))

SpecDad == InitDad /\ [][NextOne]_vars

\* ORA A, which stores szp_flags[A] into F, from every accumulator value
InitSzp == \E a \in 0..255 : \E f \in FlagBytes : AluStart(183, a, a, f)

SpecSzp == InitSzp /\ [][NextOne]_vars

\* a program loaded at address at, over a background of HLT
ImageAt(at, bytes) ==
    [k |-> [a \in at..(at + Len(bytes) - 1) |-> bytes[a - at + 1]], d |-> 118]

\* PUSH B / D / H / PSW are 11pp0101, POP 11pp0001
PushOps == {197, 213, 229, 245}
PopOps == {193, 209, 225, 241}

\* stack pointers tried: mid-memory, and those where a push wraps past 0
StackPointers == {12288, 0, 1, 2, 65535}

\* PUSH rp; POP rp at 0100h, the pair holding hi:lo
InitPushPop ==
    \E k \in 0..3 : \E hi \in 0..255 : \E sp \in StackPointers :
        \E lo \in (IF k = 3 THEN 0..255 ELSE LowBytes) :
            LET base == [BaseRegs(0) EXCEPT !.PC8 = 256, !.SP8 = sp]
                regs == CASE k = 0 -> [base EXCEPT !.B = hi, !.C = lo]
                          [] k = 1 -> [base EXCEPT !.D = hi, !.E = lo]
                          [] k = 2 -> [base EXCEPT !.H = hi, !.L = lo]
                          [] OTHER -> [base EXCEPT !.A = hi, !.F = lo]
            IN  (k = 3 => hi \in LowBytes)
                /\ Boot(regs, ImageAt(256, << 197 + 16 * k, 193 + 16 * k >>))

\* two passes of the loop
NextTwo == (n < 2 /\ cpu_8080_step) \/ (n < 2 /\ cpu_8080_check)

SpecPushPop == InitPushPop /\ [][NextTwo]_vars

\* POP PSW at 0100h with the stack holding v (for F) and a (for A)
InitPopPsw ==
    \E v \in 0..255 : \E a \in LowBytes : \E sp \in StackPointers :
        LET regs == [BaseRegs(0) EXCEPT !.PC8 = 256, !.SP8 = sp]
        IN  Boot(regs, memwrt(memwrt(ImageAt(256, << 241 >>), sp, v),
                              WORD(sp + 1), a))

SpecPopPsw == InitPopPsw /\ [][NextOne]_vars

\* bytes loaded at address at, wrapping past FFFF, over a background of HLT
LoadAt(at, bytes) ==
    [k |-> [a \in {WORD(at + i - 1) : i \in 1..Len(bytes)} |->
                bytes[((a - at) % 65536) + 1]],
     d |-> 118]

\* RST k is 11kkk111
RstOps == {199 + 8 * k : k \in 0..7}

\* where the calling instruction is put: mid-memory and at the top of memory
CallSites == {256, 65533, 65535}
CallTargets == {8, 4660, 65280}

\* CALL nn (or RST k) at p with a RET at its target, the stack clear of both
InitCall ==
    \E opc \in {205} \cup RstOps : \E p \in CallSites : \E sp \in StackPointers :
        \E nn \in (IF opc = 205 THEN CallTargets ELSE {opc - 199}) :
            \E f \in {0, 255} :
                LET code == IF opc = 205
                            THEN LoadAt(p, << opc, nn % 256, nn \div 256 >>)
                            ELSE LoadAt(p, << opc >>)
                    regs == [BaseRegs(f) EXCEPT !.PC8 = p, !.SP8 = sp]
                IN  /\ nn \notin DOMAIN code.k
                    /\ {WORD(sp - 1), WORD(sp - 2)} \cap (DOMAIN code.k \cup {nn}) = {}
                    /\ Boot(regs, memwrt(code, nn, 201))

SpecCall == InitCall /\ [][NextTwo]_vars

\* Rcc 11ccc000, Jcc 11ccc010, Ccc 11ccc100
RetcOps == {192 + 8 * c : c \in 0..7}
JmpcOps == {194 + 8 * c : c \in 0..7}
CallcOps == {196 + 8 * c : c \in 0..7}

\* a conditional at p under every flag byte: Jcc / Ccc nn, or Rcc with nn on
\* the stack; the stack is clear of the code
InitCond ==
    \E opc \in RetcOps \cup JmpcOps \cup CallcOps : \E f \in 0..255 :
        \E p \in CallSites : \E sp \in {12288, 65535} : \E nn \in {8, 4660} :
            LET code == IF opc \in RetcOps
                        THEN LoadAt(p, << opc >>)
                        ELSE LoadAt(p, << opc, nn % 256, nn \div 256 >>)
                regs == [BaseRegs(f) EXCEPT !.PC8 = p, !.SP8 = sp]
                stack == IF opc \in RetcOps THEN {sp, WORD(sp + 1)}
                         ELSE {WORD(sp - 1), WORD(sp - 2)}
                image == IF opc \in RetcOps
                         THEN memwrt(memwrt(code, sp, nn % 256), WORD(sp + 1), nn \div 256)
                         ELSE code
            IN  /\ stack \cap DOMAIN code.k = {}
                /\ Boot(regs, image)

SpecCond == InitCond /\ [][NextOne]_vars

\* the undocumented opcodes: NOP*, JMP*, RET*, CALL*
AliasOps == {8, 16, 24, 32, 40, 48, 56, 203, 217, 221, 237, 253}

\* an undocumented opcode at p, with an operand nn, nn also on the stack,
\* and the stack clear of the code
InitAlias ==
    \E opc \in AliasOps : \E p \in CallSites : \E sp \in StackPointers :
        \E f \in FlagBytes : \E nn \in {8, 4660} :
            LET code == LoadAt(p, << opc, nn % 256, nn \div 256 >>)
                regs == [BaseRegs(f) EXCEPT !.PC8 = p, !.SP8 = sp]
                stack == {WORD(sp - 2), WORD(sp - 1), sp, WORD(sp + 1)}
            IN  /\ stack \cap DOMAIN code.k = {}
                /\ Boot(regs, memwrt(memwrt(code, sp, nn % 256),
                                     WORD(sp + 1), nn \div 256))

SpecAlias == InitAlias /\ [][NextOne]_vars

-----------------------------------------------------------------------------
(* Two instructions: DI, EI or NOP, then any opcode.                        *)

\* DI / EI / NOP at 0, any opcode at 1 with operand bytes 03 00; IFF starts
\* at the 0 of the zero-initialised cpu_state, which init_cpu never writes
InitIff ==
    \E first \in {243, 251, 0} : \E o \in 0..255 : \E f \in FlagBytes :
        Boot(BaseRegs(f), Image(<< first, o, 3, 0 >>, 118))

SpecIff == InitIff /\ [][NextTwo]_vars

-----------------------------------------------------------------------------
(* Port I/O: any opcode with a port operand, then OUT n, then HLT.          *)

\* the port numbers tried
Ports == {0, 66, 67, 255}

\* o p D3 q 76 at 0: for o = DB this is IN p; OUT q; HLT
InitIo ==
    \E o \in 0..255 : \E p \in Ports : \E q \in Ports : \E f \in {0, 255} :
        Boot(BaseRegs(f), Image(<< o, p, 211, q, 118 >>, 118))

\* the loop, for as many passes as the exploration allows
NextRun == cpu_8080_step \/ cpu_8080_check

SpecIo == InitIo /\ [][NextRun]_vars

-----------------------------------------------------------------------------
(* XTHL at 0100h.                                                           *)

\* HL = h:l, the bytes m0 and m1 at SP and SP + 1 (which wraps for SP = FFFF)
InitXthl ==
    \E l \in 0..255 : \E h \in LowBytes : \E m0 \in LowBytes : \E m1 \in LowBytes :
        \E sp \in StackPointers : \E f \in {0, 255} :
            LET regs == [BaseRegs(f) EXCEPT !.PC8 = 256, !.SP8 = sp, !.H = h, !.L = l]
            IN  Boot(regs, memwrt(memwrt(ImageAt(256, << 227 >>), sp, m0),
                                  WORD(sp + 1), m1))

SpecXthl == InitXthl /\ [][NextOne]_vars

-----------------------------------------------------------------------------
(* Any opcode at the top of memory, the stack at the bottom.                *)

\* where the opcode is put: its operand bytes 34 12 wrap to 0000 and 0001
WrapSites == {256, 65533, 65534, 65535}

\* stack pointers from which a push or a pop wraps
WrapPointers == {12288, 0, 1, 2, 65534, 65535}

\* register files: the draws of init_cpu, all bits clear, all bits set
WrapRegs(f) ==
    {BaseRegs(f),
     [r \in RegNames |-> IF r = "F" THEN f ELSE 0],
     [r \in RegNames |-> CASE r = "F" -> f
                           [] r \in {"PC8", "SP8"} -> 65535
                           [] r = "IFF" -> 3
                           [] OTHER -> 255]}

\* opcode o at p with operand 1234h, over a background of HLT
InitWrap ==
    \E o \in 0..255 : \E p \in WrapSites : \E sp \in WrapPointers :
        \E f \in {0, 255} : \E base \in WrapRegs(f) :
            Boot([base EXCEPT !.PC8 = p, !.SP8 = sp], LoadAt(p, << o, 52, 18 >>))

SpecWrap == InitWrap /\ [][NextOne]_vars

-----------------------------------------------------------------------------
(* Two rotates in a row, from every accumulator value.                      *)

\* RLC, RRC, RAL, RAR
RotOps == {7, 15, 23, 31}

\* one rotate at 0 and another at 1
InitRot ==
    \E o1 \in RotOps : \E o2 \in RotOps : \E a \in 0..255 : \E f \in FlagBytes :
        Boot([BaseRegs(f) EXCEPT !.A = a], Image(<< o1, o2 >>, 118))

SpecRot == InitRot /\ [][NextTwo]_vars

-----------------------------------------------------------------------------
(* CMA; CMA, STC; CMC, STC; STC and XCHG; XCHG.                             *)

PairProgs == { << 47, 47 >>, << 55, 63 >>, << 55, 55 >>, << 235, 235 >> }

\* every A for CMA, every F for STC / CMC, every D against the edges of H
\* for XCHG
InitPair ==
    \E prog \in PairProgs :
        \E a \in (CASE prog[1] = 47 -> 0..255
                    [] prog[1] = 55 -> LowBytes
                    [] OTHER -> {154}) :
            \E f \in (CASE prog[1] = 47 -> FlagBytes
                        [] prog[1] = 55 -> 0..255
                        [] OTHER -> {0, 255}) :
                \E d \in (IF prog[1] = 235 THEN 0..255 ELSE {86}) :
                    \E h \in (IF prog[1] = 235 THEN Edge ELSE {32}) :
                        \E e \in (IF prog[1] = 235 THEN LowBytes ELSE {120}) :
                            \E l \in (IF prog[1] = 235 THEN LowBytes ELSE {1}) :
                                Boot([BaseRegs(f) EXCEPT !.A = a, !.D = d, !.E = e,
                                                         !.H = h, !.L = l],
                                     Image(prog, 118))

SpecPair == InitPair /\ [][NextTwo]_vars

-----------------------------------------------------------------------------
(* Decimal addition: ADD or ADC of two packed-BCD bytes, then DAA.          *)

\* the bytes whose two nibbles are both decimal digits
BcdBytes == {16 * hi + lo : hi \in 0..9, lo \in 0..9}

\* ADD B, ADC B, ADD M, ADC M, ADI, ACI
BcdOps == {128, 136, 134, 142, 198, 206}

\* A = x and the operand y, the flags f; the addition at 0, then DAA
InitBcd ==
    \E opc \in BcdOps : \E x \in BcdBytes : \E y \in BcdBytes :
        \E f \in {0, 1, 254, 255} :
            LET regs == IF opc \in {128, 136}
                        THEN [BaseRegs(f) EXCEPT !.A = x, !.B = y]
                        ELSE [BaseRegs(f) EXCEPT !.A = x]
                image == CASE opc >= 192 -> Image(<< opc, y, 39 >>, 118)
                           [] opc % 8 = 6 ->
                                memwrt(Image(<< opc, 39 >>, 118), 8193, y)
                           [] OTHER -> Image(<< opc, 39 >>, 118)
            IN  Boot(regs, image)

SpecBcd == InitBcd /\ [][NextTwo]_vars

-----------------------------------------------------------------------------
(* Properties.                                                             *)

Flag(f, bit) == AND(f, bit) # 0

\* C1: at every instruction boundary the X and Y bits of F are 0.
C1_XYClear ==
    pc \in {"fetch", "check"} => AND(loc.F, OR(X_FLAG, Y_FLAG)) = 0

\* C2: State changes only from Running, to Halted or to Interrupted, and
\* once Halted or Interrupted it never changes again.
C2_Transitions ==
    [][State' # State => (State = Running /\ State' \in {Halted, Interrupted})]_vars

\* C3: cpu_8080 entered with State already Halted or Interrupted executes no
\* instruction: PC, memory, the I/O done and tstates stay as they were.
C3_NoInstructionUnlessRunning ==
    at_entry \in {Halted, Interrupted} =>
        /\ n = 0
        /\ loc.PC8 = cpu_state.PC8
        /\ tstates = ULONG(0, 0)
        /\ mem = pre.mem
        /\ io = << >>

CondHolds(opc, f) ==
    LET c == (opc \div 8) % 8
        bit == CASE c \in {0, 1} -> Z_FLAG
                 [] c \in {2, 3} -> C_FLAG
                 [] c \in {4, 5} -> P_FLAG
                 [] OTHER -> S_FLAG
    IN  Flag(f, bit) = (c % 2 = 1)

\* The T-state table of the specification, by opcode and outcome.
TStateTable(opc, f) ==
    CASE opc = 118 -> 7                                          \* HLT
      [] opc \in 64..127 ->                                      \* MOV
            IF opc % 8 = 6 \/ (opc \div 8) % 8 = 6 THEN 7 ELSE 5
      [] opc \in 128..191 -> IF opc % 8 = 6 THEN 7 ELSE 4        \* ALU r / M
      [] opc < 64 /\ opc % 8 = 0 -> 4                            \* NOP
      [] opc < 64 /\ opc % 16 = 1 -> 10                          \* LXI
      [] opc \in {2, 18, 10, 26} -> 7                            \* STAX, LDAX
      [] opc \in {34, 42} -> 16                                  \* SHLD, LHLD
      [] opc \in {50, 58} -> 13                                  \* STA, LDA
      [] opc < 64 /\ opc % 8 = 3 -> 5                            \* INX, DCX
      [] opc < 64 /\ opc % 8 \in {4, 5} ->                       \* INR, DCR
            IF opc \in {52, 53} THEN 10 ELSE 5
      [] opc < 64 /\ opc % 8 = 6 -> IF opc = 54 THEN 10 ELSE 7   \* MVI
      [] opc < 64 /\ opc % 8 = 7 -> 4           \* RLC RRC RAL RAR DAA CMA STC CMC
      [] opc < 64 /\ opc % 16 = 9 -> 10                          \* DAD
      [] opc \in {195, 203} -> 10                                \* JMP
      [] opc \in {201, 217} -> 10                                \* RET
      [] opc \in {205, 221, 237, 253} -> 17                      \* CALL
      [] opc = 227 -> 18                                         \* XTHL
      [] opc = 235 -> 4                                          \* XCHG
      [] opc \in {233, 249} -> 5                                 \* PCHL, SPHL
      [] opc \in {211, 219} -> 10                                \* OUT, IN
      [] opc \in {243, 251} -> 4                                 \* DI, EI
      [] opc >= 192 /\ opc % 8 = 0 ->                            \* Rcc
            IF CondHolds(opc, f) THEN 11 ELSE 5
      [] opc >= 192 /\ opc % 8 = 2 -> 10                         \* Jcc
      [] opc >= 192 /\ opc % 8 = 4 ->                            \* Ccc
            IF CondHolds(opc, f) THEN 17 ELSE 11
      [] opc >= 192 /\ opc % 16 = 1 -> 10                        \* POP
      [] opc >= 192 /\ opc % 16 = 5 -> 11                        \* PUSH
      [] opc >= 192 /\ opc % 8 = 6 -> 7                          \* ALU immediate
      [] opc >= 192 /\ opc % 8 = 7 -> 11                         \* RST

\* C5: the T-states one executed instruction adds are those of the table, for
\* every opcode and both outcomes of a conditional.
C5_TStates ==
    pc = "check" =>
        /\ loc.t = TStateTable(op, pre.loc.F)
        /\ tstates = account(pre.tstates, TStateTable(op, pre.loc.F))

\* a taken conditional return (RZ with Z set) has been charged its 11 T-states
C5_Witness ==
    /\ pc = "check"
    /\ op = 200
    /\ Flag(pre.loc.F, Z_FLAG)
    /\ loc.t = 11

\* Order of two counter values held as 16-bit halves.
Less(x, y) == x.hi < y.hi \/ (x.hi = y.hi /\ x.lo < y.lo)

\* C6: tstates after an executed instruction is never below tstates before
\* it, however long the run, and has grown by the table's count (4 or more).
C6_NeverDecreases ==
    pc = "check" =>
        /\ ~Less(tstates, pre.tstates)
        /\ TStateTable(op, pre.loc.F) >= 4

\* The end of the run of 3E 02 C6 03 76, with a given T-state total.
ImmediateAdd(total) ==
    (pc = "done" /\ mem = Image(ProgAdd, 0) /\ ~brk) =>
        /\ State = Halted
        /\ cpu_state.A = 5
        /\ ~Flag(cpu_state.F, Z_FLAG)
        /\ ~Flag(cpu_state.F, S_FLAG)
        /\ Flag(cpu_state.F, P_FLAG)
        /\ ~Flag(cpu_state.F, C_FLAG)
        /\ ~Flag(cpu_state.F, H_FLAG)
        /\ cpu_state.PC8 = 5
        /\ tstates = ULONG(0, total)

\* C7 as stated: 3E 02 C6 03 76 run from init_cpu to HLT ends Halted with
\* A = 05, Z = 0, S = 0, P = 1, C = 0, H = 0, PC = 0005 and 28 T-states.
C7_ImmediateAdd28 == ImmediateAdd(28)

\* C7: that run ends Halted with A = 05, Z = 0, S = 0, P = 1, C = 0, H = 0,
\* PC = 0005 and 7 + 7 + 7 = 21 T-states.
C7_ImmediateAdd21 == ImmediateAdd(21)

\* that run has ended, with no break
C7_Witness ==
    /\ pc = "done"
    /\ mem = Image(ProgAdd, 0)
    /\ ~brk
    /\ n = 3
    /\ op = 118
    /\ State = Halted

\* The operand of an accumulator-group opcode, read from the machine p.
AluOperand(opc, p) ==
    CASE opc >= 192 -> memrdr(p.mem, WORD(p.loc.PC8 + 1))
      [] opc % 8 = 6 -> memrdr(p.mem, p.loc.H * 256 + p.loc.L)
      [] OTHER -> p.loc[Reg8[(opc % 8) + 1]]

CarryIn(opc, p) == IF opc \in CarryOps THEN p.loc.F % 2 ELSE 0

SZP(f) == AND(f, S_FLAG + Z_FLAG + P_FLAG)

\* C8: ADD and ADC, in every operand form, leave A = (a + b + c) mod 256 with
\* C set iff a + b + c >= 256, H set iff the low nibbles and c sum to 16 or
\* more, and S, Z, P those of szp_flags at the result; c is 0 for ADD.
C8_AddAdc ==
    (pc = "check" /\ op \in AddOps) =>
        LET a == pre.loc.A
            b == AluOperand(op, pre)
            c == CarryIn(op, pre)
            r == (a + b + c) % 256
        IN  /\ loc.A = r
            /\ Flag(loc.F, C_FLAG) <=> a + b + c >= 256
            /\ Flag(loc.F, H_FLAG) <=> (a % 16) + (b % 16) + c >= 16
            /\ SZP(loc.F) = SZP(szp_flags[r])

\* ADD B with FF + 01 has given 00 with Z, C, H, P set and S clear
C8_Witness ==
    /\ pc = "check"
    /\ op = 128
    /\ pre.loc.A = 255
    /\ pre.loc.B = 1
    /\ pre.loc.F = 1
    /\ loc.A = 0
    /\ loc.F = Z_FLAG + C_FLAG + H_FLAG + P_FLAG

\* C9: SUB, SBB and CMP, in every operand form, compute r = (a - b - c) mod 256
\* with C set iff a < b + c, H set iff a mod 16 >= b mod 16 + c, and S, Z, P
\* those of szp_flags at r; c is 0 for SUB and CMP.  SUB and SBB store r in A;
\* CMP leaves A alone and gives the whole of F as SUB gives it.
C9_SubSbbCmp ==
    (pc = "check" /\ op \in SubOps) =>
        LET a == pre.loc.A
            b == AluOperand(op, pre)
            c == CarryIn(op, pre)
            r == (a - b - c) % 256
        IN  /\ Flag(loc.F, C_FLAG) <=> a < b + c
            /\ Flag(loc.F, H_FLAG) <=> (a % 16) >= (b % 16) + c
            /\ SZP(loc.F) = SZP(szp_flags[r])
            /\ loc.A = IF op \in CmpOps THEN a ELSE r
            /\ op \in CmpOps => loc.F = finish_sub([A |-> a, F |-> pre.loc.F], b).F

\* CMP B with 00 against 01 has left A = 00 and the flags of 00 - 01 = FF:
\* C, S, P set, Z and H clear
C9_Witness ==
    /\ pc = "check"
    /\ op = 184
    /\ pre.loc.A = 0
    /\ pre.loc.B = 1
    /\ loc.A = 0
    /\ loc.F = C_FLAG + S_FLAG + P_FLAG

\* C10: DAA adds p = (06 if the low nibble of A exceeds 9 or H is set) |
\* (60 if A exceeds 99h or C is set) to A mod 256, sets H to the carry out of
\* bit 3 of that addition, S, Z, P from the result and C to (A > 99h) or the
\* old C; 15h + 27h gives 3Ch, from which DAA gives 42h with C = 0, H = 1,
\* S = 0, Z = 0, P = 1.
C10_Daa ==
    (pc = "check" /\ op = 39) =>
        LET a == pre.loc.A
            h == Flag(pre.loc.F, H_FLAG)
            c == Flag(pre.loc.F, C_FLAG)
            p == (IF a % 16 > 9 \/ h THEN 6 ELSE 0) + (IF a > 153 \/ c THEN 96 ELSE 0)
            r == (a + p) % 256
            sum == finish_add([A |-> 21, F |-> 0], 39)
        IN  /\ loc.A = r
            /\ Flag(loc.F, H_FLAG) <=> (a % 16) + (p % 16) >= 16
            /\ SZP(loc.F) = SZP(szp_flags[r])
            /\ Flag(loc.F, C_FLAG) <=> (a > 153 \/ c)
            /\ sum.A = 60 /\ ~Flag(sum.F, H_FLAG) /\ ~Flag(sum.F, C_FLAG)
            /\ (a = 60 /\ pre.loc.F = sum.F) =>
                    /\ loc.A = 66
                    /\ ~Flag(loc.F, C_FLAG)
                    /\ Flag(loc.F, H_FLAG)
                    /\ ~Flag(loc.F, S_FLAG)
                    /\ ~Flag(loc.F, Z_FLAG)
                    /\ Flag(loc.F, P_FLAG)

\* DAA has adjusted the 3Ch that 15h + 27h left
C10_Witness ==
    /\ pc = "check"
    /\ op = 39
    /\ pre.loc.A = 60
    /\ pre.loc.F = P_FLAG
    /\ loc.A = 66
    /\ Flag(loc.F, H_FLAG)

\* The byte an INR / DCR opcode works on, read from registers l and memory m,
\* the address of M being HL of the registers hl.
IncTarget(opc, l, m, hl) ==
    LET tgt == Reg8[((opc \div 8) % 8) + 1]
    IN  IF tgt = "M" THEN memrdr(m, hl.H * 256 + hl.L) ELSE l[tgt]

\* C11: INR stores (p + 1) mod 256 and DCR (p - 1) mod 256 into any target,
\* B C D E H L A or the byte at HL; C is unchanged, S Z P are those of the
\* result, INR sets H iff p mod 16 = 15 and DCR sets H iff p mod 16 # 0.
C11_InrDcr ==
    (pc = "check" /\ op \in IncOps \cup DecOps) =>
        LET p == IncTarget(op, pre.loc, pre.mem, pre.loc)
            q == IncTarget(op, loc, mem, pre.loc)
            r == IF op \in IncOps THEN (p + 1) % 256 ELSE (p - 1) % 256
        IN  /\ q = r
            /\ Flag(loc.F, C_FLAG) <=> Flag(pre.loc.F, C_FLAG)
            /\ SZP(loc.F) = SZP(szp_flags[r])
            /\ op \in IncOps => (Flag(loc.F, H_FLAG) <=> p % 16 = 15)
            /\ op \in DecOps => (Flag(loc.F, H_FLAG) <=> p % 16 # 0)
            /\ (op \in IncOps /\ p = 255) =>
                    AND(loc.F, 254) = Z_FLAG + P_FLAG + H_FLAG
            /\ (op \in DecOps /\ p = 0) =>
                    AND(loc.F, 254) = S_FLAG + P_FLAG

\* INR M on FF has stored 00 at HL with Z, P, H set and the carry kept
C11_Witness ==
    /\ pc = "check"
    /\ op = 52
    /\ memrdr(pre.mem, 8193) = 255
    /\ memrdr(mem, 8193) = 0
    /\ pre.loc.F = 1
    /\ loc.F = Z_FLAG + P_FLAG + H_FLAG + C_FLAG

\* What the B form o of an operation gives when A and B both hold a.
GeneralForm(o, a, f) ==
    instruction([Ctx EXCEPT !.mem = Image(<< o >>, 0), !.PC8 = 0, !.A = a,
                            !.B = a, !.F = f, !.t = 0], 0)

\* C12: ANA / ANI give A = a & b with H = bit 3 of (a | b) and C = 0; XRA / XRI
\* and ORA / ORI give a xor b and a | b with H = 0 and C = 0; S Z P are those
\* of the result.  The arms XRA A (A = 0, F = Z|P), SUB A (A = 0, F = Z|H|P),
\* CMP A (A kept, F = Z|H|P) and ORA A give the A and F of the general arm of
\* their operation applied to operand A.
C12_Logic ==
    (pc = "check" /\ op \in LogicOps \cup {151, 191}) =>
        LET a == pre.loc.A
            b == AluOperand(op, pre)
            f == pre.loc.F
            r == CASE op \in AnaOps -> AND(a, b)
                   [] op \in XraOps -> XOR(a, b)
                   [] OTHER -> OR(a, b)
            same(o) == /\ loc.A = GeneralForm(o, a, f).A
                       /\ loc.F = GeneralForm(o, a, f).F
        IN  /\ op \in LogicOps =>
                /\ loc.A = r
                /\ SZP(loc.F) = SZP(szp_flags[r])
                /\ ~Flag(loc.F, C_FLAG)
                /\ Flag(loc.F, H_FLAG) <=> (op \in AnaOps /\ Flag(OR(a, b), 8))
            /\ op = 175 => loc.A = 0 /\ loc.F = Z_FLAG + P_FLAG /\ same(168)
            /\ op = 151 => loc.A = 0 /\ loc.F = Z_FLAG + H_FLAG + P_FLAG /\ same(144)
            /\ op = 191 => loc.A = a /\ loc.F = Z_FLAG + H_FLAG + P_FLAG /\ same(184)
            /\ op = 183 => same(176)

\* XRA A has cleared A = FF and left F = Z|P
C12_Witness ==
    /\ pc = "check"
    /\ op = 175
    /\ pre.loc.A = 255
    /\ pre.loc.F = 255
    /\ loc.A = 0
    /\ loc.F = Z_FLAG + P_FLAG

\* The pair operand of a DAD opcode in the registers l.
DadOperand(opc, l) ==
    CASE opc = 9 -> l.B * 256 + l.C
      [] opc = 25 -> l.D * 256 + l.E
      [] opc = 41 -> l.H * 256 + l.L
      [] OTHER -> l.SP8

\* C13: DAD sets HL to (HL + rp) mod 65536 and C iff HL + rp >= 65536, for
\* rp = BC, DE, HL, SP; S Z P H, A, SP and the operand pair (other than HL)
\* are unchanged.
C13_Dad ==
    (pc = "check" /\ op \in DadOps) =>
        LET hl == pre.loc.H * 256 + pre.loc.L
            rp == DadOperand(op, pre.loc)
            keep == S_FLAG + Z_FLAG + P_FLAG + H_FLAG
        IN  /\ loc.H * 256 + loc.L = (hl + rp) % 65536
            /\ Flag(loc.F, C_FLAG) <=> hl + rp >= 65536
            /\ AND(loc.F, keep) = AND(pre.loc.F, keep)
            /\ loc.A = pre.loc.A
            /\ loc.SP8 = pre.loc.SP8
            /\ op # 41 => DadOperand(op, loc) = rp

\* DAD SP with HL = FFFF and SP = 0001 has given HL = 0000 and set C
C13_Witness ==
    /\ pc = "check"
    /\ op = 57
    /\ pre.loc.H = 255 /\ pre.loc.L = 255
    /\ pre.loc.SP8 = 1
    /\ pre.loc.F = 0
    /\ loc.H = 0 /\ loc.L = 0
    /\ loc.F = C_FLAG

RECURSIVE Ones(_)
\* the number of 1 bits of v
Ones(v) == IF v = 0 THEN 0 ELSE (v % 2) + Ones(v \div 2)

\* C14: for every byte v, szp_flags[v] has S set iff v >= 80h, Z set iff
\* v = 0, P set iff v has an even number of 1 bits, and C N X H Y clear.
C14_SzpFlags ==
    /\ \A v \in 0..255 :
        /\ Flag(szp_flags[v], S_FLAG) <=> v >= 128
        /\ Flag(szp_flags[v], Z_FLAG) <=> v = 0
        /\ Flag(szp_flags[v], P_FLAG) <=> Ones(v) % 2 = 0
        /\ AND(szp_flags[v], C_FLAG + N_FLAG + X_FLAG + H_FLAG + Y_FLAG) = 0
    /\ (pc = "check" /\ op = 183) => loc.F = szp_flags[pre.loc.A]

\* ORA A has looked up the flags of FF: S and P
C14_Witness ==
    /\ pc = "check"
    /\ op = 183
    /\ pre.loc.A = 255
    /\ loc.F = S_FLAG + P_FLAG

\* C15: PUSH rp followed at once by POP rp restores the pair (BC, DE, HL) and
\* SP, for every SP, also where the push wraps past address 0; PUSH PSW then
\* POP PSW restores A and SP and leaves F = (F & ~(X_FLAG | Y_FLAG)) | N_FLAG.
\* cpu_state still holds the registers the run started from.
C15_PushPop ==
    (pc = "check" /\ n = 2 /\ op \in PopOps) =>
        /\ loc.SP8 = cpu_state.SP8
        /\ op # 241 =>
              \A r \in {"A", "B", "C", "D", "E", "H", "L", "F"} : loc[r] = cpu_state[r]
        /\ op = 241 =>
              /\ \A r \in {"A", "B", "C", "D", "E", "H", "L"} : loc[r] = cpu_state[r]
              /\ loc.F = OR(AND(cpu_state.F, 255 - (X_FLAG + Y_FLAG)), N_FLAG)
              /\ \A bit \in {S_FLAG, Z_FLAG, H_FLAG, P_FLAG, C_FLAG} :
                    Flag(loc.F, bit) <=> Flag(cpu_state.F, bit)

\* PUSH PSW; POP PSW with SP = 0001 and F = FF has wrapped past address 0 and
\* come back with F = D7
C15_Witness ==
    /\ pc = "check"
    /\ n = 2
    /\ op = 241
    /\ cpu_state.SP8 = 1
    /\ cpu_state.F = 255
    /\ memrdr(mem, 65535) = 215
    /\ loc.F = 215
    /\ loc.SP8 = 1

\* C16: POP PSW loads F with the byte at SP masked so that X and Y are 0
\* (S Z H P C as in the byte), loads A from SP + 1 and adds 2 to SP.
C16_PopPswMasks ==
    (pc = "check" /\ op = 241) =>
        LET v == memrdr(pre.mem, pre.loc.SP8)
        IN  /\ AND(loc.F, X_FLAG + Y_FLAG) = 0
            /\ \A bit \in {S_FLAG, Z_FLAG, H_FLAG, P_FLAG, C_FLAG} :
                    Flag(loc.F, bit) <=> Flag(v, bit)
            /\ loc.A = memrdr(pre.mem, WORD(pre.loc.SP8 + 1))
            /\ loc.SP8 = WORD(pre.loc.SP8 + 2)

\* The return address of the CALL or RST at p: p + 3 or p + 1.
ReturnAddress(opc, p) == WORD(p + (IF opc \in RstOps THEN 1 ELSE 3))

\* C17: CALL nn at p writes the high byte of p + 3 at SP - 1 and the low byte
\* at SP - 2, sets SP to SP - 2 and PC to nn; RST k at p does so with p + 1
\* and PC = 8k; a RET that finds SP and the two bytes as they were left sets
\* PC to the return address and SP to what it was before the call.
C17_CallRet ==
    /\ (pc = "check" /\ n = 1 /\ op \in {205} \cup RstOps) =>
          LET p == pre.loc.PC8
              sp == pre.loc.SP8
              ret == ReturnAddress(op, p)
              nn == IF op = 205
                    THEN memrdr(pre.mem, WORD(p + 1)) + 256 * memrdr(pre.mem, WORD(p + 2))
                    ELSE op - 199
          IN  /\ memrdr(mem, WORD(sp - 1)) = ret \div 256
              /\ memrdr(mem, WORD(sp - 2)) = ret % 256
              /\ loc.SP8 = WORD(sp - 2)
              /\ loc.PC8 = nn
    /\ (pc = "check" /\ n = 2 /\ op = 201) =>
          /\ loc.PC8 = ReturnAddress(memrdr(mem, cpu_state.PC8), cpu_state.PC8)
          /\ loc.SP8 = cpu_state.SP8

\* the RET after the CALL at FFFD has come back to 0000 with SP as before
C17_Witness ==
    /\ pc = "check"
    /\ n = 2
    /\ op = 201
    /\ cpu_state.PC8 = 65533
    /\ cpu_state.SP8 = 12288
    /\ memrdr(mem, 12287) = 0 /\ memrdr(mem, 12286) = 0
    /\ loc.PC8 = 0
    /\ loc.SP8 = 12288

\* The machine p (a snapshot) as cpu_8080 holds it.
CtxOf(p) ==
    [x \in RegNames \cup {"t", "State", "mem", "io"} |->
        CASE x = "State" -> p.State
          [] x = "mem" -> p.mem
          [] x = "io" -> p.io
          [] OTHER -> p.loc[x]]

\* What opcode o would have done in place of the opcode at PC of p.
InPlace(o, p) ==
    instruction([CtxOf(p) EXCEPT !.mem = memwrt(p.mem, p.loc.PC8, o)], 0)

\* C18: a conditional is taken iff its flag has the value its condition
\* names (NZ Z NC C PO PE P M).  Untaken, Jcc and Ccc at p end with
\* PC = p + 3 and Rcc with PC = p + 1, and SP, memory, the registers and F
\* are as before.  Taken, Jcc / Ccc / Rcc leave the registers, F, PC, SP and
\* memory that JMP / CALL / RET leave (their T-states are those of C5).
C18_Conditionals ==
    (pc = "check" /\ op \in RetcOps \cup JmpcOps \cup CallcOps) =>
        LET p == pre.loc.PC8
            plain == CASE op \in RetcOps -> 201
                       [] op \in JmpcOps -> 195
                       [] OTHER -> 205
            d == InPlace(plain, pre)
        IN  IF CondHolds(op, pre.loc.F)
            THEN /\ \A r \in RegNames : loc[r] = d[r]
                 /\ mem = memwrt(d.mem, p, op)
                 /\ State = d.State
            ELSE /\ loc.PC8 = WORD(p + (IF op \in RetcOps THEN 1 ELSE 3))
                 /\ \A r \in RegNames \ {"PC8"} : loc[r] = pre.loc[r]
                 /\ mem = pre.mem
                 /\ loc.PC8 # d.PC8

\* CNZ at 0100 with Z set has fallen through to 0103 and pushed nothing
C18_Witness ==
    /\ pc = "check"
    /\ op = 196
    /\ Flag(pre.loc.F, Z_FLAG)
    /\ pre.loc.PC8 = 256
    /\ loc.PC8 = 259
    /\ loc.SP8 = pre.loc.SP8
    /\ mem = pre.mem

\* The documented opcode an undocumented one stands for.
Documented(opc) ==
    CASE opc = 203 -> 195
      [] opc = 217 -> 201
      [] opc \in {221, 237, 253} -> 205
      [] OTHER -> 0

\* C19: an undocumented opcode leaves the successor state of its documented
\* counterpart (08 10 18 20 28 30 38 of NOP, CB of JMP, D9 of RET, DD ED FD
\* of CALL): registers, F, PC, SP, memory, State and the T-states added.
C19_Aliases ==
    (pc = "check" /\ op \in AliasOps) =>
        LET d == InPlace(Documented(op), pre)
        IN  /\ \A r \in RegNames \cup {"t"} : loc[r] = d[r]
            /\ mem = memwrt(d.mem, pre.loc.PC8, op)
            /\ io = d.io
            /\ State = d.State
            /\ tstates = account(pre.tstates, d.t)

\* CALL* (ED) at 0100 has pushed 0103 and gone to 1234
C19_Witness ==
    /\ pc = "check"
    /\ op = 237
    /\ pre.loc.PC8 = 256
    /\ pre.loc.SP8 = 12288
    /\ loc.PC8 = 4660
    /\ loc.SP8 = 12286
    /\ memrdr(mem, 12287) = 1 /\ memrdr(mem, 12286) = 3
    /\ loc.t = 17

\* C20: every opcode byte is executed by an arm of its own, none by the
\* default arm (which alone leaves t = 0), and without a break State is still
\* Running after every instruction but HLT, which makes it Halted.
C20_NoFailureMode ==
    pc = "check" =>
        /\ op \in 0..255
        /\ loc.t >= 4
        /\ (~brk /\ op # 118) => State = Running
        /\ (~brk /\ op = 118) => State = Halted

\* an undocumented opcode (ED) and a HLT have been executed with no break
C20_Witness ==
    /\ pc = "check"
    /\ ~brk
    /\ n = 2
    /\ pre.State = Running
    /\ op = 118
    /\ memrdr(mem, 0) = 237
    /\ State = Halted

\* The byte io_in returned to the instruction just executed (0 if not IN n).
InputOf(opc, l) == IF opc = 219 THEN l.A ELSE 0

\* C21: IFF is always 0 or 3: DI sets it to 0, EI to 3, every other opcode
\* leaves it as it was; DI and EI change nothing but IFF, PC (by 1) and
\* tstates (by 4); and an instruction run with the other value of IFF gives
\* the same registers, flags, PC, SP, memory, I/O, State and T-states.
C21_Iff ==
    /\ loc.IFF \in {0, 3}
    /\ cpu_state.IFF \in {0, 3}
    /\ pc = "check" =>
          /\ op = 243 => loc.IFF = 0
          /\ op = 251 => loc.IFF = 3
          /\ op \notin {243, 251} => loc.IFF = pre.loc.IFF
          /\ op \in {243, 251} =>
                /\ \A r \in RegNames \ {"IFF", "PC8"} : loc[r] = pre.loc[r]
                /\ loc.PC8 = WORD(pre.loc.PC8 + 1)
                /\ mem = pre.mem /\ io = pre.io /\ State = pre.State
                /\ tstates = account(pre.tstates, 4)
          /\ \E d \in {instruction([CtxOf(pre) EXCEPT !.IFF = 3 - pre.loc.IFF],
                                   InputOf(op, loc))} :
                /\ \A r \in (RegNames \ {"IFF"}) \cup {"t"} : loc[r] = d[r]
                /\ mem = d.mem /\ io = d.io /\ State = d.State

\* DI has run after EI: IFF went from 3 to 0 and nothing else but PC moved
C21_Witness ==
    /\ pc = "check"
    /\ n = 2
    /\ op = 243
    /\ pre.loc.IFF = 3
    /\ loc.IFF = 0
    /\ loc.PC8 = 2
    /\ tstates = ULONG(0, 8)

\* C22: init_cpu establishes the power-on state whatever was held before:
\* PC = 0, IFF = 0, State = Running and tstates = 0, with SP in 0..65535 and
\* A B C D E H L F in 0..255, so that the first instruction is fetched from
\* address 0 with State Running.
C22_InitPowerOn ==
    [][(pc = "init_cpu" /\ pc' = "cpu_8080") =>
          /\ cpu_state'.PC8 = 0
          /\ cpu_state'.IFF = 0
          /\ State' = Running
          /\ tstates' = ULONG(0, 0)
          /\ cpu_state'.SP8 \in 0..65535
          /\ \A r \in {"A", "B", "C", "D", "E", "H", "L", "F"} :
                cpu_state'[r] \in 0..255]_vars

\* C23: IN n makes exactly one call io_in(n, n) and stores what it returns in
\* A; OUT n makes exactly one call io_out(n, n, A); n is the immediate byte,
\* the flags and the other registers are unchanged, and no other opcode makes
\* an I/O call.  DB 42 D3 43 76 with io_in(42h) = 7Eh ends with A = 7Eh and
\* the single call io_out(43h, 43h, 7Eh).
C23_PortIo ==
    pc = "check" =>
        LET p == pre.loc.PC8
            port == memrdr(pre.mem, WORD(p + 1))
        IN  /\ op = 219 =>
                /\ io = Append(pre.io, << "in", port, port, loc.A >>)
                /\ \A r \in RegNames \ {"A", "PC8"} : loc[r] = pre.loc[r]
                /\ loc.PC8 = WORD(p + 2)
                /\ mem = pre.mem
            /\ op = 211 =>
                /\ io = Append(pre.io, << "out", port, port, pre.loc.A >>)
                /\ \A r \in RegNames \ {"PC8"} : loc[r] = pre.loc[r]
                /\ loc.PC8 = WORD(p + 2)
                /\ mem = pre.mem
            /\ op \notin {211, 219} => io = pre.io
            /\ (/\ op = 118 /\ n = 3
                /\ mem = Image(<< 219, 66, 211, 67, 118 >>, 118)
                /\ io[1] = << "in", 66, 66, 126 >>) =>
                    /\ loc.A = 126
                    /\ io = << << "in", 66, 66, 126 >>, << "out", 67, 67, 126 >> >>
                    /\ State = Halted

\* DB 42 D3 43 76 has run to its HLT: one read of port 42h, one write of 7Eh
\* to port 43h
C23_Witness ==
    /\ pc = "check"
    /\ op = 118
    /\ n = 3
    /\ mem = Image(<< 219, 66, 211, 67, 118 >>, 118)
    /\ Len(io) = 2
    /\ io[1] = << "in", 66, 66, 126 >>
    /\ io[2] = << "out", 67, 67, 126 >>
    /\ loc.A = 126

\* XTHL has exchanged L with the byte at SP and H with the byte at SP + 1
\* mod 65536, left SP, the flags and the other registers alone, and charged
\* extra T-states on top of the 4 of the fetch.
XthlCharges(extra) ==
    (pc = "check" /\ op = 227) =>
        LET sp == pre.loc.SP8
        IN  /\ loc.L = memrdr(pre.mem, sp)
            /\ loc.H = memrdr(pre.mem, WORD(sp + 1))
            /\ mem = memwrt(memwrt(pre.mem, sp, pre.loc.L), WORD(sp + 1), pre.loc.H)
            /\ \A r \in RegNames \ {"H", "L", "PC8"} : loc[r] = pre.loc[r]
            /\ loc.PC8 = WORD(pre.loc.PC8 + 1)
            /\ loc.t = 4 + extra
            /\ tstates = account(pre.tstates, 4 + extra)

\* C24 as stated: XTHL exchanges L with memory[SP] and H with
\* memory[(SP + 1) mod 65536], leaves SP and the flags unchanged, and charges
\* 10 T-states beyond the 4 of the M1 fetch.
C24_Xthl10 == XthlCharges(10)

\* C24 as the code has it: the same exchange, charging 14 T-states beyond the
\* 4 of the M1 fetch, 18 in all.
C24_Xthl14 == XthlCharges(14)

\* XTHL with SP = FFFF has exchanged L with the byte at FFFF and H with the
\* byte at 0000, in 18 T-states
C24_Witness ==
    /\ pc = "check"
    /\ op = 227
    /\ pre.loc.SP8 = 65535
    /\ pre.loc.H = 1 /\ pre.loc.L = 35
    /\ memrdr(pre.mem, 65535) = 128 /\ memrdr(pre.mem, 0) = 255
    /\ loc.H = 255 /\ loc.L = 128
    /\ memrdr(mem, 65535) = 35 /\ memrdr(mem, 0) = 1
    /\ loc.SP8 = 65535
    /\ tstates = ULONG(0, 18)

\* The pair a PUSH opcode stores, from the registers l: high byte, low byte.
PushedPair(opc, l) ==
    CASE opc = 197 -> << l.B, l.C >>
      [] opc = 213 -> << l.D, l.E >>
      [] opc = 229 -> << l.H, l.L >>
      [] OTHER -> << l.A, OR(AND(l.F, 255 - (X_FLAG + Y_FLAG)), N_FLAG) >>

\* The bytes of an instruction that does not transfer control.
Length(opc) ==
    CASE opc \in {1, 17, 33, 49, 34, 42, 50, 58} -> 3         \* LXI SHLD LHLD STA LDA
      [] opc < 64 /\ opc % 8 = 6 -> 2                         \* MVI
      [] opc \in {198, 206, 214, 222, 230, 238, 246, 254, 211, 219} -> 2
      [] OTHER -> 1

\* the opcodes that load PC
Transfers ==
    {195, 203, 205, 221, 237, 253, 201, 217, 233} \cup RstOps \cup RetcOps
        \cup JmpcOps \cup CallcOps

\* C25: PC and SP are computed modulo 65536 and the 8-bit registers modulo
\* 256, so after any instruction every register is in range and every
\* address written is in 0..65535; opcode and operand fetches wrap from FFFF
\* to 0000 (JMP at FFFE takes its low byte at FFFF and its high byte at 0000
\* and ends with PC = nn); a push with SP = 0001 writes the high byte at
\* 0000, the low byte at FFFF and ends with SP = FFFF.
C25_Wraps ==
    /\ \A r \in RegNames \ {"PC8", "SP8"} : loc[r] \in 0..255
    /\ loc.PC8 \in 0..65535 /\ loc.SP8 \in 0..65535
    /\ DOMAIN mem.k \subseteq 0..65535
    /\ \A a \in DOMAIN mem.k : mem.k[a] \in 0..255
    /\ pc = "check" =>
          LET p == pre.loc.PC8
              nn == memrdr(pre.mem, WORD(p + 1)) + 256 * memrdr(pre.mem, WORD(p + 2))
          IN  /\ op \notin Transfers => loc.PC8 = (p + Length(op)) % 65536
              /\ op = 195 => loc.PC8 = nn
              /\ (op = 195 /\ p = 65534) =>
                    loc.PC8 = memrdr(pre.mem, 65535) + 256 * memrdr(pre.mem, 0)
              /\ op \in {1, 17, 33} =>
                    loc[Reg8[(op \div 8) + 2]] = memrdr(pre.mem, WORD(p + 1))
              /\ op \in PushOps =>
                    /\ loc.SP8 = (pre.loc.SP8 - 2) % 65536
                    /\ memrdr(mem, (pre.loc.SP8 - 1) % 65536) = PushedPair(op, pre.loc)[1]
                    /\ memrdr(mem, (pre.loc.SP8 - 2) % 65536) = PushedPair(op, pre.loc)[2]
              /\ (op \in PushOps /\ pre.loc.SP8 = 1) =>
                    /\ memrdr(mem, 0) = PushedPair(op, pre.loc)[1]
                    /\ memrdr(mem, 65535) = PushedPair(op, pre.loc)[2]
                    /\ loc.SP8 = 65535
              /\ op \in PopOps => loc.SP8 = (pre.loc.SP8 + 2) % 65536

\* JMP 1234h at FFFE has taken its operand from FFFF and 0000
C25_Witness ==
    /\ pc = "check"
    /\ op = 195
    /\ pre.loc.PC8 = 65534
    /\ memrdr(pre.mem, 65535) = 52 /\ memrdr(pre.mem, 0) = 18
    /\ loc.PC8 = 4660

\* The 9-bit value (C, A) of the registers l.
CarryA(l) == (IF Flag(l.F, C_FLAG) THEN 256 ELSE 0) + l.A

\* C26: RLC and RRC rotate the 8 bits of A by one position, C taking the bit
\* that went round (bit 7 for RLC, bit 0 for RRC); RAL and RAR rotate the 9
\* bits (C, A) by one position; all four leave S Z P H (every bit of F but C)
\* and every other register unchanged; RLC then RRC restores A, RAL then RAR
\* restores A and C.  cpu_state holds the registers the run started from.
C26_Rotates ==
    (pc = "check" /\ op \in RotOps) =>
        LET a == pre.loc.A
            v == CarryA(pre.loc)
        IN  /\ op = 7 => /\ loc.A = ((2 * a) % 256) + (a \div 128)
                         /\ Flag(loc.F, C_FLAG) <=> a >= 128
            /\ op = 15 => /\ loc.A = (a \div 2) + 128 * (a % 2)
                          /\ Flag(loc.F, C_FLAG) <=> a % 2 = 1
            /\ op = 23 => CarryA(loc) = ((2 * v) % 512) + (v \div 256)
            /\ op = 31 => CarryA(loc) = (v \div 2) + 256 * (v % 2)
            /\ AND(loc.F, 255 - C_FLAG) = AND(pre.loc.F, 255 - C_FLAG)
            /\ \A bit \in {S_FLAG, Z_FLAG, P_FLAG, H_FLAG} :
                    Flag(loc.F, bit) <=> Flag(pre.loc.F, bit)
            /\ \A r \in RegNames \ {"A", "F", "PC8"} : loc[r] = pre.loc[r]
            /\ (n = 2 /\ op = 15 /\ memrdr(mem, 0) = 7) => loc.A = cpu_state.A
            /\ (n = 2 /\ op = 31 /\ memrdr(mem, 0) = 23) =>
                    loc.A = cpu_state.A /\ loc.F = cpu_state.F

\* RAL then RAR on A = 81 with C clear: through A = 02 with C set, back to
\* A = 81 with C clear
C26_Witness ==
    /\ pc = "check"
    /\ n = 2
    /\ op = 31
    /\ memrdr(mem, 0) = 23
    /\ cpu_state.A = 129 /\ cpu_state.F = 0
    /\ pre.loc.A = 2 /\ pre.loc.F = C_FLAG
    /\ loc.A = 129 /\ loc.F = 0

\* C27: CMA; CMA restores A and changes no flag; STC; CMC leaves C = 0 and
\* STC; STC leaves C = 1, every other bit of F and every register as they
\* were; XCHG; XCHG restores D, E, H, L; one XCHG (DE <-> HL) changes no flag
\* and no other register.  cpu_state holds the registers the run started
\* from, the program being at 0.
C27_Involutions ==
    pc = "check" =>
        LET first == memrdr(mem, 0)
            others == RegNames \ {"F", "PC8"}
        IN  /\ op = 235 =>
                /\ loc.D = pre.loc.H /\ loc.E = pre.loc.L
                /\ loc.H = pre.loc.D /\ loc.L = pre.loc.E
                /\ \A r \in RegNames \ {"D", "E", "H", "L", "PC8"} :
                        loc[r] = pre.loc[r]
                /\ mem = pre.mem
            /\ (n = 2 /\ first = 47 /\ op = 47) =>
                /\ loc.A = cpu_state.A
                /\ loc.F = cpu_state.F
                /\ pre.loc.A = 255 - cpu_state.A
            /\ (n = 2 /\ first = 55 /\ op = 63) =>
                /\ ~Flag(loc.F, C_FLAG)
                /\ AND(loc.F, 255 - C_FLAG) = AND(cpu_state.F, 255 - C_FLAG)
                /\ \A r \in others : loc[r] = cpu_state[r]
            /\ (n = 2 /\ first = 55 /\ op = 55) =>
                /\ Flag(loc.F, C_FLAG)
                /\ AND(loc.F, 255 - C_FLAG) = AND(cpu_state.F, 255 - C_FLAG)
                /\ \A r \in others : loc[r] = cpu_state[r]
            /\ (n = 2 /\ first = 235 /\ op = 235) =>
                \A r \in RegNames \ {"PC8"} : loc[r] = cpu_state[r]

\* STC; CMC from F = D6 (C clear): through D7, back to D6
C27_Witness ==
    /\ pc = "check"
    /\ n = 2
    /\ memrdr(mem, 0) = 55
    /\ op = 63
    /\ cpu_state.F = 214
    /\ pre.loc.F = 215
    /\ loc.F = 214

\* The decimal value of a packed-BCD byte, and the byte of a value 0..99.
Decimal(b) == 10 * (b \div 16) + (b % 16)

Packed(v) == 16 * (v \div 10) + (v % 10)

\* C28: for packed-BCD bytes x and y and carry-in c, ADD (c = 0) or ADC of x
\* and y followed by DAA leaves A = the packed-BCD byte of (x + y + c) mod 100
\* and C set iff x + y + c >= 100, in decimal.  cpu_state holds the registers
\* the run started from, the addition being at 0.
C28_DecimalAdd ==
    (pc = "check" /\ n = 2 /\ op = 39 /\ memrdr(mem, 0) \in AddOps) =>
        LET start == [loc |-> cpu_state, mem |-> mem]
            first == memrdr(mem, 0)
            x == cpu_state.A
            y == AluOperand(first, start)
            c == CarryIn(first, start)
            sum == Decimal(x) + Decimal(y) + c
        IN  (x \in BcdBytes /\ y \in BcdBytes) =>
                /\ loc.A = Packed(sum % 100)
                /\ Flag(loc.F, C_FLAG) <=> sum >= 100
                /\ loc.A \in BcdBytes

\* ACI 99h on A = 99h with C set, then DAA: 99 + 99 + 1 = 199, A = 99h and C
C28_Witness ==
    /\ pc = "check"
    /\ n = 2
    /\ op = 39
    /\ memrdr(mem, 0) = 206
    /\ memrdr(mem, 1) = 153
    /\ cpu_state.A = 153
    /\ cpu_state.F = 1
    /\ pre.loc.A = 51
    /\ loc.A = 153
    /\ Flag(loc.F, C_FLAG)

=============================================================================
